---- MODULE Spec2Model ----
(***************************************************************************)
(* Model of the PPU of RuNES (src/src/ppu/mod.rs) and of the PPU port      *)
(* dispatch of the bus (src/src/bus.rs).                                   *)
(*                                                                         *)
(* The PPU object is the record `ppu`; its fields keep the names of the    *)
(* struct PPU.  Every method of the PPU is an operator of the same name    *)
(* that maps the record before the call to the record after it (and to     *)
(* the returned value, when there is one).                                 *)
(*                                                                         *)
(* Representation:                                                         *)
(*  - sprite_ram and name_table0..3 are zero-initialised byte arrays; they *)
(*    are functions that list the non-zero cells only (Load / Store);      *)
(*  - palette and secondary_sprite_ram are sequences, cell i at i + 1;     *)
(*  - has_sprite is the set of the indices that hold true;                 *)
(*  - curr_frame keeps the pixel written last (x, y and the index of its   *)
(*    colour in the system palette), `written` FALSE for a new Frame;      *)
(*  - the mapper is an NROM cartridge with CHR ROM: its mirroring is       *)
(*    fixed, its pattern data is chr_rom, writes to it are ignored;        *)
(*  - panicked is not a field of the struct: it records that the thread    *)
(*    has panicked (an index out of the bounds of sprite_ram).             *)
(***************************************************************************)
EXTENDS Integers, Naturals, Sequences, FiniteSets, TLC

VARIABLES
    ppu,        \* the PPU object (struct PPU)
    hist,       \* the last operations, latest first: [op, arg, ret]
    dots,       \* number of dot steps (PPU::run calls) performed so far
    ops,        \* number of register-port accesses performed so far
    frame_dots, \* number of dot steps since the last frame-completion signal
    signals,    \* number of frame-completion signals so far
    frame_lens, \* lengths (in dot steps) of the last two completed frames
    toggles,    \* Scroll/Address writes since the last Status read
    sup_read,   \* 1: Status was read at (241, 0) and the PPU has not yet left
                \* (241, 1); 2: that happened in an earlier frame; 0: never
    addr_age,   \* dot steps, not counting frame-completion steps, since the last
                \* second Address write (capped at 4); -1: there was none
    addr_val,   \* the address that write completed: high byte of t, low byte written
    banks,      \* reference nametable memory: the four physical 1KB banks, each
                \* holding the last byte a Data write put at each of its offsets
    cpu,        \* the CPU object (struct CPU) with cpu_ram of its Bus
    dma,        \* the sprite DMA in progress or done last: the OAM address it
                \* started from, its cycles and OAM-Data writes so far, and
                \* whether every one of those writes was made outside rendering
    nmi,        \* the NMI line: the times the PPU raised it, the times the CPU
                \* sampled a rising edge with none pending, the times the CPU
                \* took the NMI vector, the cycles of the instruction under way
    copies      \* sprites copied whole into secondary OAM by dot steps
                \* (DotStepTo): on the current scanline, the most on a scanline
                \* since the pre-render line began, whether the evaluation of
                \* the current scanline started (cycle 65, rendering on), and
                \* whether since the pre-render line began an evaluation went
                \* on without having started on its scanline

vars == <<ppu, hist, dots, ops, frame_dots, signals, frame_lens,
          toggles, sup_read, addr_age, addr_val, banks, cpu, dma, nmi, copies>>

-----------------------------------------------------------------------------
(* Bit operations on naturals (u8 / u16 / u32 values of the source).       *)

\* & on two bits-wide values, bit by bit
RECURSIVE AndBits(_, _)
AndBits(a, b) ==
    IF a = 0 \/ b = 0 THEN 0
    ELSE (a % 2) * (b % 2) + 2 * AndBits(a \div 2, b \div 2)

\* & on bytes, tabulated
AndByte == [a \in 0 .. 255 |-> [b \in 0 .. 255 |-> AndBits(a, b)]]

RECURSIVE And(_, _)
And(a, b) ==
    IF a < 256 /\ b < 256 THEN AndByte[a][b]
    ELSE AndByte[a % 256][b % 256] + 256 * And(a \div 256, b \div 256)

Or(a, b) == a + b - And(a, b)

Xor(a, b) == a + b - 2 * And(a, b)

\* !m on a u16
Not16(m) == 65535 - m

Shl(a, n) == a * (2 ^ n)

Shr(a, n) == a \div (2 ^ n)

\* << on a u8 and on a u16: the bits shifted out are lost
Shl8(a, n) == (a * (2 ^ n)) % 256

Shl16(a, n) == (a * (2 ^ n)) % 65536

\* bitflags: contains / set for a single-bit flag
contains(bits, flag) == And(bits, flag) = flag

set(bits, flag, value) ==
    IF value THEN Or(bits, flag) ELSE bits - And(bits, flag)

Min(a, b) == IF a < b THEN a ELSE b

\* a local binding: F applied to the value v
Let(v, F(_)) == F(v)

-----------------------------------------------------------------------------
(* Flag bits.                                                              *)

Status_VBLANK          == 128
Status_SPRITE_ZERO_HIT == 64
Status_SPRITE_OVERFLOW == 32

Control_INCREMENT               == 4
Control_SPRITE_PATTERN_ADDR     == 8
Control_BACKGROUND_PATTERN_ADDR == 16
Control_SPRITE_SIZE             == 32
Control_NMI                     == 128

Mask_SHOW_LEFT_BACKGROUND == 2
Mask_SHOW_LEFT_SPRITES    == 4
Mask_SHOW_BACKGROUND      == 8
Mask_SHOW_SPRITES         == 16

-----------------------------------------------------------------------------
(* Byte arrays.                                                            *)

\* a zero-initialised array as the function of its non-zero cells
Load(m, a) == IF a \in DOMAIN m THEN m[a] ELSE 0

Store(m, a, v) ==
    IF v = 0
    THEN [x \in DOMAIN m \ {a} |-> m[x]]
    ELSE [x \in DOMAIN m \cup {a} |-> IF x = a THEN v ELSE m[x]]

\* cell i of an array kept as a sequence
At(s, i) == s[i + 1]

Put(s, i, v) == [s EXCEPT ![i + 1] = v]

-----------------------------------------------------------------------------
(* The cartridge: NROM with CHR ROM.                                       *)

\* pattern data: tiles 0, 4, 8, .. are solid colour 3, tiles 2, 6, .. have
\* colour 1 in their left half and colour 2 in their right half, odd tiles
\* are transparent
chr_rom(addr) ==
    LET tile  == And(Shr(addr, 4), 255)
        plane == And(Shr(addr, 3), 1)
    IN  IF tile % 2 = 1 THEN 0
        ELSE IF tile % 4 = 0 THEN 255
        ELSE IF plane = 0 THEN 240 ELSE 15

NROM_new == [mirroring |-> "Horizontal"]

get_mirroring(p) == p.mapper.mirroring

read_chr_rom(p, addr) == chr_rom(addr)

-----------------------------------------------------------------------------
(* PPU::new                                                                *)

Tile_default ==
    [palette_offset |-> 0, tile_addr |-> 0, low |-> 0, high |-> 0, offset_y |-> 0]

Sprite_default ==
    [offset_y |-> 0, tile_addr |-> 0, palette_offset |-> 0, priority |-> FALSE,
     flip_horizontal |-> FALSE, flip_vertical |-> FALSE, sprite_x |-> 0,
     low_byte |-> 0, high_byte |-> 0]

Frame_new == [written |-> FALSE, x |-> 0, y |-> 0, color |-> 0]

PPU_new ==
    [ ctrl                      |-> 0,
      status_flags              |-> 0,
      status                    |-> 0,
      mask                      |-> 0,
      sprite_ram_addr           |-> 0,
      sprite_ram                |-> <<>>,
      sprite_tiles              |-> [i \in 1 .. 8 |-> Sprite_default],
      name_table0               |-> <<>>,
      name_table1               |-> <<>>,
      name_table2               |-> <<>>,
      name_table3               |-> <<>>,
      palette                   |-> <<9, 1, 0, 1, 0, 2, 2, 13, 8, 16, 8, 36, 0, 0,
                                      4, 44, 9, 1, 52, 3, 0, 4, 0, 20, 8, 58, 0, 2,
                                      0, 32, 44, 8>>,
      cycle                     |-> 0,
      scanline                  |-> 0,
      curr_frame                |-> Frame_new,
      nmi_generated             |-> FALSE,
      mapper                    |-> NROM_new,
      minimum_draw_bg_cycle     |-> 0,
      minimum_draw_sprite_cycle |-> 0,
      high_bit_shift            |-> 0,
      low_bit_shift             |-> 0,
      has_sprite                |-> {},
      sprite_count              |-> 0,
      previous_tile             |-> Tile_default,
      current_tile              |-> Tile_default,
      next_tile                 |-> Tile_default,
      vram_addr                 |-> 0,
      temp_vram_addr            |-> 0,
      x_scroll                  |-> 0,
      w                         |-> FALSE,
      sprite_index              |-> 0,
      oam_copy_buffer           |-> 0,
      secondary_sprite_ram      |-> [i \in 1 .. 32 |-> 0],
      sprite_0_added            |-> FALSE,
      sprite_in_range           |-> FALSE,
      secondary_oam_addr        |-> 0,
      overflow_bug_counter      |-> 0,
      oam_copy_done             |-> FALSE,
      sprite_addr_h             |-> 0,
      sprite_addr_l             |-> 0,
      first_visible_sprite_addr |-> 0,
      last_visible_sprite_addr  |-> 0,
      sprite_0_visible          |-> FALSE,
      frame_count               |-> 1,
      prev_rendering_enabled    |-> FALSE,
      rendering_enabled         |-> FALSE,
      need_state_update         |-> FALSE,
      prevent_vbl_flag          |-> FALSE,
      memory_read_buffer        |-> 0,
      ppu_bus_address           |-> 0,
      update_vram_addr_delay    |-> 0,
      update_vram_addr          |-> 0,
      master_clock              |-> 0,
      open_bus                  |-> 0,
      sprite_dma_transfer       |-> [enabled |-> FALSE, page |-> 0],
      panicked                  |-> FALSE ]

-----------------------------------------------------------------------------
(* PPU memory: pattern tables, nametables, palette.                        *)

set_bus_address(p, addr) == [p EXCEPT !.ppu_bus_address = addr]

nametable(p, i) ==
    CASE i = 0 -> p.name_table0
      [] i = 1 -> p.name_table1
      [] i = 2 -> p.name_table2
      [] OTHER -> p.name_table3

\* result: the PPU after the read (the bus address follows the address down
\* the mirror 0x3000..=0x3fff) and the byte read
read_vram(p, addr) ==
    IF addr >= 16384
    THEN [ppu |-> [set_bus_address(p, addr) EXCEPT !.panicked = TRUE], val |-> 0]
    ELSE LET a == IF addr >= 12288 THEN addr - 4096 ELSE addr
             m == get_mirroring(p)
         IN  [ppu |-> set_bus_address(p, a),
              val |-> IF a < 8192 THEN read_chr_rom(p, a)
                      ELSE IF m = "SingleScreenA" THEN Load(p.name_table0, a % 1024)
                      ELSE IF m = "SingleScreenB" THEN Load(p.name_table1, a % 1024)
                      ELSE Load(nametable(p, (a - 8192) \div 1024), a % 1024)]

write_to_nametable(p, addr, data) ==
    LET a == IF addr >= 12288 THEN addr - 4096 ELSE addr
        i == (a - 8192) \div 1024
        o == a % 1024
        m == get_mirroring(p)
    IN  CASE m = "SingleScreenA" -> [p EXCEPT !.name_table0 = Store(@, o, data)]
          [] m = "SingleScreenB" -> [p EXCEPT !.name_table1 = Store(@, o, data)]
          [] m = "FourScreen" ->
                CASE i = 0 -> [p EXCEPT !.name_table0 = Store(@, o, data)]
                  [] i = 1 -> [p EXCEPT !.name_table1 = Store(@, o, data)]
                  [] i = 2 -> [p EXCEPT !.name_table2 = Store(@, o, data)]
                  [] OTHER -> [p EXCEPT !.name_table3 = Store(@, o, data)]
          [] m = "Horizontal" ->
                IF i < 2
                THEN [p EXCEPT !.name_table0 = Store(@, o, data),
                               !.name_table1 = Store(@, o, data)]
                ELSE [p EXCEPT !.name_table2 = Store(@, o, data),
                               !.name_table3 = Store(@, o, data)]
          [] OTHER ->
                IF i % 2 = 0
                THEN [p EXCEPT !.name_table0 = Store(@, o, data),
                               !.name_table2 = Store(@, o, data)]
                ELSE [p EXCEPT !.name_table1 = Store(@, o, data),
                               !.name_table3 = Store(@, o, data)]

\* the cartridge has CHR ROM: Mapper::write_chr_rom changes nothing
write_vram(p, addr, val) ==
    LET p1 == set_bus_address(p, addr)
    IN  IF addr < 8192 THEN p1
        ELSE IF addr < 16128 THEN write_to_nametable(p1, addr, val)
        ELSE [p1 EXCEPT !.panicked = TRUE]

palette_index(addr) ==
    LET a == And(addr, 31)
    IN  IF a \in {16, 20, 24, 28} THEN a - 16 ELSE a

read_palette_ram(p, addr) == At(p.palette, palette_index(addr))

write_palette_ram(p, addr, val) ==
    LET a == And(addr, 31)
        v == And(val, 63)
    IN  IF a \in {0, 4, 8, 12} THEN [p EXCEPT !.palette = Put(@, a + 16, v)]
        ELSE IF a \in {16, 20, 24, 28} THEN [p EXCEPT !.palette = Put(@, a - 16, v)]
        ELSE [p EXCEPT !.palette = Put(@, a, v)]

-----------------------------------------------------------------------------
(* Scroll increments and the state update.                                 *)

is_rendering_enabled(p) == p.rendering_enabled

mask_rendering(p) ==
    contains(p.mask, Mask_SHOW_BACKGROUND) \/ contains(p.mask, Mask_SHOW_SPRITES)

increment_scroll_x(p) ==
    LET addr == p.vram_addr IN
    [p EXCEPT !.vram_addr =
        IF And(addr, 31) = 31
        THEN Xor(And(addr, Not16(31)), 1024)
        ELSE (addr + 1) % 65536]

\* variant of the vertical increment that toggles bit 11 at coarse-Y 31 too
increment_scroll_y_toggle_at_31(p) ==
    LET addr == p.vram_addr IN
    [p EXCEPT !.vram_addr =
        IF And(addr, 28672) # 28672
        THEN (addr + 4096) % 65536
        ELSE LET a1 == And(addr, Not16(28672))
                 y  == Shr(And(a1, 992), 5)
                 a2 == IF y = 29 \/ y = 31 THEN Xor(a1, 2048) ELSE a1
                 y2 == IF y = 29 \/ y = 31 THEN 0 ELSE y + 1
             IN  Or(And(a2, Not16(992)), Shl(y2, 5))]

increment_scroll_y(p) ==
    LET addr == p.vram_addr IN
    [p EXCEPT !.vram_addr =
        IF And(addr, 28672) # 28672
        THEN (addr + 4096) % 65536
        ELSE LET a1 == And(addr, Not16(28672))
                 y  == Shr(And(a1, 992), 5)
                 a2 == IF y = 29 THEN Xor(a1, 2048) ELSE a1
                 y2 == IF y = 29 \/ y = 31 THEN 0 ELSE y + 1
             IN  Or(And(a2, Not16(992)), Shl(y2, 5))]

\* variant of the address update that does not mask the sum to 15 bits
update_video_ram_addr_unmasked(p) ==
    IF p.scanline >= 240 \/ ~is_rendering_enabled(p)
    THEN set_bus_address(
             [p EXCEPT !.vram_addr = @ + (IF contains(p.ctrl, Control_INCREMENT) THEN 32 ELSE 1)],
             And(p.vram_addr + (IF contains(p.ctrl, Control_INCREMENT) THEN 32 ELSE 1), 16383))
    ELSE increment_scroll_y(increment_scroll_x(p))

\* variant of the address update that ignores the increment bit of Control
update_video_ram_addr_by_one(p) ==
    IF p.scanline >= 240 \/ ~is_rendering_enabled(p)
    THEN set_bus_address([p EXCEPT !.vram_addr = And(@ + 1, 32767)],
                         And(And(p.vram_addr + 1, 32767), 16383))
    ELSE increment_scroll_y(increment_scroll_x(p))

update_video_ram_addr(p) ==
    IF p.scanline >= 240 \/ ~is_rendering_enabled(p)
    THEN LET v == And(p.vram_addr
                      + (IF contains(p.ctrl, Control_INCREMENT) THEN 32 ELSE 1), 32767)
         IN  set_bus_address([p EXCEPT !.vram_addr = v], And(v, 16383))
    ELSE increment_scroll_y(increment_scroll_x(p))

update_minimum_draw_cycles(p) ==
    [p EXCEPT
        !.minimum_draw_bg_cycle =
            IF ~contains(p.mask, Mask_SHOW_BACKGROUND) THEN 300
            ELSE IF contains(p.mask, Mask_SHOW_LEFT_BACKGROUND) THEN 0 ELSE 8,
        !.minimum_draw_sprite_cycle =
            IF ~contains(p.mask, Mask_SHOW_SPRITES) THEN 300
            ELSE IF contains(p.mask, Mask_SHOW_LEFT_SPRITES) THEN 0 ELSE 8]

update_state_latch(p) ==
    IF p.prev_rendering_enabled = p.rendering_enabled THEN p
    ELSE Let([p EXCEPT !.prev_rendering_enabled = p.rendering_enabled], LAMBDA p1:
         IF p1.scanline < 240 /\ ~p1.prev_rendering_enabled
         THEN Let(set_bus_address(p1, And(p1.vram_addr, 16383)), LAMBDA p2:
              IF p2.cycle >= 65 /\ p2.cycle <= 256
              THEN Let(p2.sprite_ram_addr + 1, LAMBDA a:
                   [p2 EXCEPT !.sprite_ram_addr = a,
                              !.sprite_addr_h = And(Shr(a, 2), 63),
                              !.sprite_addr_l = And(a, 3)])
              ELSE p2)
         ELSE p1)

\* the second part of update_state: rendering_enabled follows the mask
update_state_rendering(p) ==
    IF p.rendering_enabled # mask_rendering(p)
    THEN [p EXCEPT !.rendering_enabled = mask_rendering(p),
                   !.need_state_update = TRUE]
    ELSE p

\* the third part of update_state: the delayed copy of the written address
update_state_delay(p) ==
    IF p.update_vram_addr_delay > 0
    THEN IF p.update_vram_addr_delay - 1 = 0
         THEN Let([p EXCEPT !.update_vram_addr_delay = 0,
                            !.vram_addr = p.update_vram_addr,
                            !.temp_vram_addr = p.update_vram_addr], LAMBDA p4:
              IF p4.scanline >= 240 \/ ~is_rendering_enabled(p4)
              THEN set_bus_address(p4, And(p4.vram_addr, 16383))
              ELSE p4)
         ELSE [p EXCEPT !.update_vram_addr_delay = @ - 1,
                        !.need_state_update = TRUE]
    ELSE p

update_state(p) ==
    update_state_delay(
        update_state_rendering(
            update_state_latch([p EXCEPT !.need_state_update = FALSE])))

-----------------------------------------------------------------------------
(* Background tile fetch.                                                  *)

get_background_pattern_addr(p) ==
    IF contains(p.ctrl, Control_BACKGROUND_PATTERN_ADDR) THEN 4096 ELSE 0

get_attribute_addr(p) ==
    Or(Or(Or(9152, And(p.vram_addr, 3072)), And(Shr(p.vram_addr, 4), 56)),
       And(Shr(p.vram_addr, 2), 7))

get_nametable_addr(p) == Or(8192, And(p.vram_addr, 4095))

\* cycle & 7 = 1: the tile registers advance and the nametable byte is read
load_tile_info_nametable(p) ==
    Let([p EXCEPT !.previous_tile = p.current_tile,
                  !.current_tile = p.next_tile,
                  !.low_bit_shift = Or(@, p.next_tile.low),
                  !.high_bit_shift = Or(@, p.next_tile.high)], LAMBDA p1:
    Let(read_vram(p1, get_nametable_addr(p1)), LAMBDA r:
        [r.ppu EXCEPT
            !.next_tile.tile_addr =
                Or(Or(Shl(r.val, 4), Shr(p1.vram_addr, 12)),
                   get_background_pattern_addr(p1)),
            !.next_tile.offset_y = And(Shr(p1.vram_addr, 12), 255)]))

\* cycle & 7 = 3: the attribute byte is read
load_tile_info_attribute(p) ==
    Let(read_vram(p, get_attribute_addr(p)), LAMBDA r:
        LET shift == Or(And(Shr(p.vram_addr, 4), 4), And(p.vram_addr, 2))
        IN  [r.ppu EXCEPT
                !.next_tile.palette_offset = Shl8(And(Shr(r.val, shift), 3), 2)])

\* cycle & 7 = 5 (plane 0) and 7 (plane 8): a pattern byte is read
load_tile_info_pattern(p, plane) ==
    Let(read_vram(p, p.next_tile.tile_addr + plane), LAMBDA r:
        IF plane = 0
        THEN [r.ppu EXCEPT !.next_tile.low = r.val]
        ELSE [r.ppu EXCEPT !.next_tile.high = r.val])

load_tile_info(p) ==
    IF ~is_rendering_enabled(p) THEN p
    ELSE Let(And(p.cycle, 7), LAMBDA c:
         CASE c = 1 -> load_tile_info_nametable(p)
           [] c = 3 -> load_tile_info_attribute(p)
           [] c = 5 \/ c = 7 -> load_tile_info_pattern(p, IF c = 5 THEN 0 ELSE 8)
           [] OTHER -> p)

shift_tile_registers(p) ==
    [p EXCEPT !.low_bit_shift = Shl16(@, 1), !.high_bit_shift = Shl16(@, 1)]

-----------------------------------------------------------------------------
(* Sprite fetch: the sprite of secondary OAM at sprite_addr is loaded into *)
(* the slot sprite_index.                                                  *)

\* the row of the sprite's tile that the scanline crosses
sprite_line_offset(p, sprite_y, attr) ==
    IF And(attr, 128) = 128
    THEN ((IF contains(p.ctrl, Control_SPRITE_SIZE) THEN 15 ELSE 7)
          - (p.scanline - sprite_y)) % 256
    ELSE (p.scanline - sprite_y) % 256

\* the pattern table address of that row
sprite_tile_addr(p, tile_idx, line_offset) ==
    IF contains(p.ctrl, Control_SPRITE_SIZE)
    THEN Or(And(tile_idx, 1) * 4096, Shl(And(tile_idx, 254), 4))
         + (IF line_offset >= 8 THEN (line_offset + 8) % 256 ELSE line_offset)
    ELSE Or(Shl(tile_idx, 4),
            (IF contains(p.ctrl, Control_SPRITE_PATTERN_ADDR) THEN 4096 ELSE 0)
            + line_offset)

\* the two pattern bytes are read and the slot sprite_index is filled
load_sprite_fetch(p, attr, sprite_x, line_offset, tile_addr) ==
    Let(read_vram(p, tile_addr), LAMBDA r1:
    Let(read_vram(r1.ppu, tile_addr + 8), LAMBDA r2:
        [r2.ppu EXCEPT
            !.sprite_tiles[p.sprite_index + 1] =
                [priority        |-> And(attr, 32) = 32,
                 flip_horizontal |-> And(attr, 64) = 64,
                 flip_vertical   |-> And(attr, 128) = 128,
                 palette_offset  |-> Or(Shl8(And(attr, 3), 2), 16),
                 low_byte        |-> r1.val,
                 high_byte       |-> r2.val,
                 tile_addr       |-> tile_addr,
                 offset_y        |-> line_offset,
                 sprite_x        |-> sprite_x],
            !.has_sprite =
                IF p.scanline >= 0
                THEN @ \cup {sprite_x + i + 1 : i \in
                               {j \in 0 .. 7 : sprite_x + j + 1 < 257}}
                ELSE @]))

load_sprite(p, sprite_addr) ==
    Let(At(p.secondary_sprite_ram, sprite_addr), LAMBDA sprite_y:
    Let(At(p.secondary_sprite_ram, sprite_addr + 2), LAMBDA attr:
    Let(sprite_line_offset(p, sprite_y, attr), LAMBDA line_offset:
    Let(IF p.sprite_index < p.sprite_count /\ sprite_y < 240
        THEN load_sprite_fetch(p, attr, At(p.secondary_sprite_ram, sprite_addr + 3),
                 line_offset,
                 sprite_tile_addr(p, At(p.secondary_sprite_ram, sprite_addr + 1),
                                  line_offset))
        ELSE p, LAMBDA p3:
        [p3 EXCEPT !.sprite_index = @ + 1]))))

load_sprite_tile_info(p) == load_sprite(p, p.sprite_index * 4)

-----------------------------------------------------------------------------
(* Pixel output.                                                           *)

\* the colour (0..3) of sprite slot s at horizontal offset shift (0..7)
sprite_color(s, shift) ==
    IF s.flip_horizontal
    THEN Or(And(Shr(s.low_byte, shift), 1), Shl(And(Shr(s.high_byte, shift), 1), 1))
    ELSE Or(Shr(And(Shl8(s.low_byte, shift), 128), 7),
            Shr(And(Shl8(s.high_byte, shift), 128), 6))

\* the two colour bits of the background at the fine-X offset
background_color(p) ==
    IF p.cycle > p.minimum_draw_bg_cycle
    THEN Or(Shr(And(Shl16(p.low_bit_shift, p.x_scroll), 32768), 15),
            Shr(And(Shl16(p.high_bit_shift, p.x_scroll), 32768), 14))
    ELSE 0

\* the palette index of the background pixel
background_pixel(p, bg) ==
    LET tile == IF p.x_scroll + And(p.cycle - 1, 7) < 8
                THEN p.previous_tile ELSE p.current_tile
    IN  (tile.palette_offset + bg) % 256

\* the sprite slots with an opaque pixel at this dot
opaque_sprites(p) ==
    IF p.cycle \in p.has_sprite /\ p.cycle > p.minimum_draw_sprite_cycle
    THEN {i \in 0 .. p.sprite_count - 1 :
            LET shift == p.cycle - p.sprite_tiles[i + 1].sprite_x - 1
            IN  /\ shift >= 0 /\ shift < 8
                /\ sprite_color(p.sprite_tiles[i + 1], shift) # 0}
    ELSE {}

\* variant of the sprite pixel that accepts a sprite-zero hit at cycle 256
sprite_pixel_hit_at_256(p, i, bg) ==
    LET sprite == p.sprite_tiles[i + 1]
        hit    == /\ i = 0
                  /\ bg # 0
                  /\ p.sprite_0_visible
                  /\ contains(p.mask, Mask_SHOW_BACKGROUND)
                  /\ ~contains(p.status_flags, Status_SPRITE_ZERO_HIT)
                  /\ p.cycle > p.minimum_draw_sprite_cycle
    IN  [ppu |-> IF hit
                 THEN [p EXCEPT !.status_flags = set(@, Status_SPRITE_ZERO_HIT, TRUE)]
                 ELSE p,
         val |-> IF bg = 0 \/ ~sprite.priority
                 THEN (sprite.palette_offset
                       + sprite_color(sprite, p.cycle - sprite.sprite_x - 1)) % 256
                 ELSE background_pixel(p, bg)]

\* the first opaque sprite i is drawn over or under the background bg
sprite_pixel(p, i, bg) ==
    LET sprite == p.sprite_tiles[i + 1]
        hit    == /\ i = 0
                  /\ bg # 0
                  /\ p.sprite_0_visible
                  /\ p.cycle # 256
                  /\ contains(p.mask, Mask_SHOW_BACKGROUND)
                  /\ ~contains(p.status_flags, Status_SPRITE_ZERO_HIT)
                  /\ p.cycle > p.minimum_draw_sprite_cycle
    IN  [ppu |-> IF hit
                 THEN [p EXCEPT !.status_flags = set(@, Status_SPRITE_ZERO_HIT, TRUE)]
                 ELSE p,
         val |-> IF bg = 0 \/ ~sprite.priority
                 THEN (sprite.palette_offset
                       + sprite_color(sprite, p.cycle - sprite.sprite_x - 1)) % 256
                 ELSE background_pixel(p, bg)]

\* variant of the composition in which a sprite behind an opaque background
\* pixel lets the next opaque sprite in front show
get_pixel_color_show_through(p) ==
    Let(background_color(p), LAMBDA bg:
    Let(opaque_sprites(p), LAMBDA opaque:
    Let({i \in opaque : bg = 0 \/ ~p.sprite_tiles[i + 1].priority}, LAMBDA front:
        IF opaque = {}
        THEN [ppu |-> p, val |-> background_pixel(p, bg)]
        ELSE [ppu |-> sprite_pixel(p, CHOOSE k \in opaque : \A j \in opaque : k <= j, bg).ppu,
              val |-> IF front = {} THEN background_pixel(p, bg)
                      ELSE sprite_pixel(p, CHOOSE k \in front : \A j \in front : k <= j,
                                        bg).val])))

\* result: the PPU after the call (the sprite-zero hit may be set) and the
\* index of the pixel's colour in palette RAM
get_pixel_color(p) ==
    Let(background_color(p), LAMBDA bg:
    Let(opaque_sprites(p), LAMBDA opaque:
        IF opaque = {}
        THEN [ppu |-> p, val |-> background_pixel(p, bg)]
        ELSE sprite_pixel(p, CHOOSE k \in opaque : \A j \in opaque : k <= j, bg)))

set_pixel(p, x, y, color) ==
    [p EXCEPT !.curr_frame = [written |-> TRUE, x |-> x, y |-> y, color |-> color]]

\* variant of the pixel output that takes no look at v
draw_pixel_no_palette_view(p) ==
    Let(get_pixel_color(p), LAMBDA r:
        set_pixel(r.ppu, p.cycle - 1, p.scanline,
                  At(r.ppu.palette, IF And(r.val, 3) > 0 THEN r.val ELSE 0)))

draw_pixel(p) ==
    IF is_rendering_enabled(p) \/ And(p.vram_addr, 16128) # 16128
    THEN Let(get_pixel_color(p), LAMBDA r:
         set_pixel(r.ppu, p.cycle - 1, p.scanline,
                   At(r.ppu.palette, IF And(r.val, 3) > 0 THEN r.val ELSE 0)))
    ELSE set_pixel(p, p.cycle - 1, p.scanline, At(p.palette, And(p.vram_addr, 31)))

-----------------------------------------------------------------------------
(* Sprite evaluation.                                                      *)

\* result: the PPU after the read (panicked when addr is outside the array)
\* and the byte read
read_sprite_ram(p, addr) ==
    IF addr > 255
    THEN [ppu |-> [p EXCEPT !.panicked = TRUE], val |-> 0]
    ELSE [ppu |-> p, val |-> Load(p.sprite_ram, addr)]

next_sprite(h) == And(h + 1, 63)

\* the sprite at sprite_addr_h is done: the next one, or the end of OAM
sprite_eval_next(p) ==
    Let(next_sprite(p.sprite_addr_h), LAMBDA h:
        [p EXCEPT !.sprite_addr_h = h,
                  !.oam_copy_done = IF h = 0 THEN TRUE ELSE @])

\* variant of the copy that raises the overflow flag with the eighth sprite
sprite_eval_copy_flag_at_eight(p) ==
    Let([p EXCEPT !.secondary_sprite_ram =
                      Put(@, p.secondary_oam_addr, p.oam_copy_buffer)], LAMBDA p1:
        IF p1.sprite_in_range
        THEN Let([p1 EXCEPT !.sprite_addr_l = @ + 1,
                            !.secondary_oam_addr = @ + 1,
                            !.sprite_0_added =
                                IF p1.sprite_addr_h = 0 THEN TRUE ELSE @], LAMBDA p2:
             IF And(p2.secondary_oam_addr, 3) = 0
             THEN sprite_eval_next(
                      [p2 EXCEPT !.sprite_in_range = FALSE,
                                 !.sprite_addr_l = 0,
                                 !.last_visible_sprite_addr = p2.sprite_addr_h * 4,
                                 !.status_flags =
                                     set(@, Status_SPRITE_OVERFLOW,
                                         p2.secondary_oam_addr = 32
                                         \/ contains(@, Status_SPRITE_OVERFLOW))])
             ELSE p2)
        ELSE sprite_eval_next(p1))

\* even cycle, secondary OAM not full: the byte read is copied
sprite_eval_copy(p) ==
    Let([p EXCEPT !.secondary_sprite_ram =
                      Put(@, p.secondary_oam_addr, p.oam_copy_buffer)], LAMBDA p1:
        IF p1.sprite_in_range
        THEN Let([p1 EXCEPT !.sprite_addr_l = @ + 1,
                            !.secondary_oam_addr = @ + 1,
                            !.sprite_0_added =
                                IF p1.sprite_addr_h = 0 THEN TRUE ELSE @], LAMBDA p2:
             IF And(p2.secondary_oam_addr, 3) = 0
             THEN sprite_eval_next(
                      [p2 EXCEPT !.sprite_in_range = FALSE,
                                 !.sprite_addr_l = 0,
                                 !.last_visible_sprite_addr = p2.sprite_addr_h * 4])
             ELSE p2)
        ELSE sprite_eval_next(p1))

\* variant of the search for a ninth sprite that keeps the byte offset when
\* it rejects an entry
sprite_eval_overflow_aligned(p) ==
    Let([p EXCEPT !.oam_copy_buffer =
                      At(p.secondary_sprite_ram, And(p.secondary_oam_addr, 31))],
        LAMBDA p1:
        IF p1.sprite_in_range
        THEN Let([p1 EXCEPT
                    !.status_flags = set(@, Status_SPRITE_OVERFLOW, TRUE),
                    !.sprite_addr_l = IF p1.sprite_addr_l + 1 = 4 THEN 0 ELSE @ + 1,
                    !.sprite_addr_h =
                        IF p1.sprite_addr_l + 1 = 4 THEN next_sprite(@) ELSE @],
                 LAMBDA p2:
             IF p2.overflow_bug_counter = 0
             THEN [p2 EXCEPT !.overflow_bug_counter = 3]
             ELSE IF p2.overflow_bug_counter = 1
             THEN [p2 EXCEPT !.overflow_bug_counter = 0,
                             !.oam_copy_done = TRUE,
                             !.sprite_addr_l = 0]
             ELSE [p2 EXCEPT !.overflow_bug_counter = @ - 1])
        ELSE sprite_eval_next(p1))

\* even cycle, secondary OAM full: the search for a ninth sprite
sprite_eval_overflow(p) ==
    Let([p EXCEPT !.oam_copy_buffer =
                      At(p.secondary_sprite_ram, And(p.secondary_oam_addr, 31))],
        LAMBDA p1:
        IF p1.sprite_in_range
        THEN Let([p1 EXCEPT
                    !.status_flags = set(@, Status_SPRITE_OVERFLOW, TRUE),
                    !.sprite_addr_l = IF p1.sprite_addr_l + 1 = 4 THEN 0 ELSE @ + 1,
                    !.sprite_addr_h =
                        IF p1.sprite_addr_l + 1 = 4 THEN next_sprite(@) ELSE @],
                 LAMBDA p2:
             IF p2.overflow_bug_counter = 0
             THEN [p2 EXCEPT !.overflow_bug_counter = 3]
             ELSE IF p2.overflow_bug_counter = 1
             THEN [p2 EXCEPT !.overflow_bug_counter = 0,
                             !.oam_copy_done = TRUE,
                             !.sprite_addr_l = 0]
             ELSE [p2 EXCEPT !.overflow_bug_counter = @ - 1])
        ELSE sprite_eval_next([p1 EXCEPT !.sprite_addr_l = And(@ + 1, 3)]))

\* variant of the range test that leaves out the sprite's first row
sprite_eval_range_below(p) ==
    Let(IF /\ ~p.sprite_in_range
           /\ p.scanline > p.oam_copy_buffer
           /\ p.scanline < p.oam_copy_buffer
                           + (IF contains(p.ctrl, Control_SPRITE_SIZE) THEN 16 ELSE 8)
        THEN [p EXCEPT !.sprite_in_range = TRUE]
        ELSE p, LAMBDA p1:
        IF p1.secondary_oam_addr < 32
        THEN sprite_eval_copy(p1)
        ELSE sprite_eval_overflow(p1))

\* even cycle, OAM not exhausted: the range test, then the copy or the search
sprite_eval_range(p) ==
    Let(IF /\ ~p.sprite_in_range
           /\ p.scanline >= p.oam_copy_buffer
           /\ p.scanline < p.oam_copy_buffer
                           + (IF contains(p.ctrl, Control_SPRITE_SIZE) THEN 16 ELSE 8)
        THEN [p EXCEPT !.sprite_in_range = TRUE]
        ELSE p, LAMBDA p1:
        IF p1.secondary_oam_addr < 32
        THEN sprite_eval_copy(p1)
        ELSE sprite_eval_overflow(p1))

\* even cycle of 66..=256
sprite_eval_even(p) ==
    Let(IF p.oam_copy_done
        THEN [p EXCEPT !.sprite_addr_h = next_sprite(@),
                       !.oam_copy_buffer =
                           IF p.secondary_oam_addr >= 32
                           THEN At(p.secondary_sprite_ram,
                                   And(p.secondary_oam_addr, 31))
                           ELSE @]
        ELSE sprite_eval_range(p), LAMBDA q:
        [q EXCEPT !.sprite_ram_addr =
                      Or(And(q.sprite_addr_l, 3), Shl(q.sprite_addr_h, 2))])

\* cycle 65: evaluation starts at the OAM address; cycle 256: it ends
sprite_eval_bounds(p) ==
    IF p.cycle = 65
    THEN Let(And(Shr(p.sprite_ram_addr, 2), 63), LAMBDA h:
         [p EXCEPT !.sprite_0_added = FALSE,
                   !.sprite_in_range = FALSE,
                   !.secondary_oam_addr = 0,
                   !.overflow_bug_counter = 0,
                   !.oam_copy_done = FALSE,
                   !.sprite_addr_h = h,
                   !.sprite_addr_l = And(p.sprite_ram_addr, 3),
                   !.first_visible_sprite_addr = h * 4,
                   !.last_visible_sprite_addr = h * 4])
    ELSE IF p.cycle = 256
    THEN [p EXCEPT !.sprite_0_visible = p.sprite_0_added,
                   !.sprite_count = And(Shr(p.secondary_oam_addr, 2), 255)]
    ELSE p

\* odd cycle of 65..=256: a byte of OAM is read
sprite_eval_odd(p) ==
    Let(read_sprite_ram(p, p.sprite_ram_addr), LAMBDA r:
        IF r.ppu.panicked THEN r.ppu
        ELSE [r.ppu EXCEPT !.oam_copy_buffer = r.val])

process_sprite_eval(p) ==
    IF ~is_rendering_enabled(p) THEN p
    ELSE IF p.cycle < 65
    THEN [p EXCEPT !.oam_copy_buffer = 255,
                   !.secondary_sprite_ram = Put(@, Shr(p.cycle - 1, 1), 255)]
    ELSE Let(sprite_eval_bounds(p), LAMBDA p1:
         IF And(p1.cycle, 1) > 0 THEN sprite_eval_odd(p1) ELSE sprite_eval_even(p1))

-----------------------------------------------------------------------------
(* PPU::process_scanline: the work of one dot of scanlines -1..=239; the   *)
(* cycle counter has already been advanced by run.                         *)

\* variant of the pre-render clear that leaves the NMI signal asserted
process_scanline_clear_vblank_keep_nmi(p) ==
    IF p.cycle = 1
    THEN [p EXCEPT !.status_flags = set(@, Status_VBLANK, FALSE)]
    ELSE p

\* variant of the pre-render clear that comes one cycle late
process_scanline_clear_vblank_at_cycle_2(p) ==
    IF p.cycle = 2
    THEN [p EXCEPT !.status_flags = set(@, Status_VBLANK, FALSE),
                   !.nmi_generated = FALSE]
    ELSE p

\* pre-render line, cycle 1: VBlank and the NMI signal end
process_scanline_clear_vblank(p) ==
    IF p.cycle = 1
    THEN [p EXCEPT !.status_flags = set(@, Status_VBLANK, FALSE),
                   !.nmi_generated = FALSE]
    ELSE p

\* pre-render line, cycles 1..=8: the first 8 bytes of OAM are overwritten
\* when the OAM address is 8 or more
process_scanline_oam_bug(p) ==
    IF p.sprite_ram_addr >= 8 /\ is_rendering_enabled(p)
    THEN [p EXCEPT !.sprite_ram =
            Store(@, p.cycle - 1,
                  Load(p.sprite_ram, And(p.sprite_ram_addr, 248) + p.cycle - 1))]
    ELSE p

process_scanline_prerender(p) ==
    process_scanline_oam_bug(process_scanline_clear_vblank(p))

\* variant of the scroll step that does not look at the rendering latch
process_scanline_scroll_always(p) ==
    IF And(p.cycle, 7) = 0
    THEN IF p.cycle = 256
         THEN increment_scroll_y(increment_scroll_x(p))
         ELSE increment_scroll_x(p)
    ELSE p

\* every 8th cycle of a rendered row v moves one tile to the right, and at
\* cycle 256 one row down
process_scanline_scroll(p) ==
    IF p.prev_rendering_enabled /\ And(p.cycle, 7) = 0
    THEN IF p.cycle = 256
         THEN increment_scroll_y(increment_scroll_x(p))
         ELSE increment_scroll_x(p)
    ELSE p

\* cycle <= 256, after the tile fetch and the scroll increment
process_scanline_draw(p) ==
    IF p.scanline >= 0
    THEN process_sprite_eval(shift_tile_registers(draw_pixel(p)))
    ELSE IF p.cycle < 9 THEN process_scanline_prerender(p)
    ELSE p

\* cycle <= 256
process_scanline_fetch(p) ==
    process_scanline_draw(process_scanline_scroll(load_tile_info(p)))

\* cycle 257: v takes the horizontal bits (0x041f) of t
reload_horizontal(p) ==
    [p EXCEPT !.vram_addr =
        Or(And(p.vram_addr, Not16(1055)), And(p.temp_vram_addr, 1055))]

\* variant of the vertical reload that copies coarse Y (0x03e0) only
reload_vertical_coarse_only(p) ==
    [p EXCEPT !.vram_addr =
        Or(And(p.vram_addr, Not16(992)), And(p.temp_vram_addr, 992))]

\* pre-render line, cycles 280..=304: v takes the vertical bits (0x7be0) of t
reload_vertical(p) ==
    [p EXCEPT !.vram_addr =
        Or(And(p.vram_addr, Not16(31712)), And(p.temp_vram_addr, 31712))]

\* cycle 257: the sprite slots are emptied and v takes the horizontal bits
process_scanline_sprites_start(p) ==
    IF p.cycle = 257
    THEN IF p.prev_rendering_enabled
         THEN reload_horizontal([p EXCEPT !.sprite_index = 0, !.has_sprite = {}])
         ELSE [p EXCEPT !.sprite_index = 0, !.has_sprite = {}]
    ELSE p

\* 257 <= cycle <= 320, rendering enabled: the fetches of one sprite slot
process_scanline_sprites_load(p) ==
    IF (p.cycle - 261) % 8 = 0 THEN load_sprite_tile_info(p)
    ELSE IF (p.cycle - 257) % 8 = 0
    THEN read_vram(p, get_nametable_addr(p)).ppu
    ELSE IF (p.cycle - 259) % 8 = 0
    THEN read_vram(p, get_attribute_addr(p)).ppu
    ELSE p

\* pre-render line, cycles 280..=304
process_scanline_sprites_reload(p) ==
    IF p.scanline = -1 /\ p.cycle >= 280 /\ p.cycle <= 304
    THEN reload_vertical(p)
    ELSE p

\* 257 <= cycle <= 320, after the step of cycle 257
process_scanline_sprites_fetch(p) ==
    IF is_rendering_enabled(p)
    THEN process_scanline_sprites_reload(
             process_scanline_sprites_load([p EXCEPT !.sprite_ram_addr = 0]))
    ELSE p

\* 257 <= cycle <= 320
process_scanline_sprites(p) ==
    process_scanline_sprites_fetch(process_scanline_sprites_start(p))

\* cycles 328 and 336: the shift registers move 8 bits and v one tile
process_scanline_prefetch_shift(p) ==
    increment_scroll_x([p EXCEPT !.low_bit_shift = Shl16(@, 8),
                                 !.high_bit_shift = Shl16(@, 8)])

\* variant of the prefetch that moves v at cycle 336 only
process_scanline_prefetch_once(p) ==
    IF p.cycle = 321
    THEN load_tile_info(IF is_rendering_enabled(p)
                        THEN [p EXCEPT !.oam_copy_buffer = At(p.secondary_sprite_ram, 0)]
                        ELSE p)
    ELSE IF p.prev_rendering_enabled /\ p.cycle = 336
    THEN process_scanline_prefetch_shift(load_tile_info(p))
    ELSE load_tile_info(p)

\* 321 <= cycle <= 336: prefetch of the first two tiles of the next line
process_scanline_prefetch(p) ==
    IF p.cycle = 321
    THEN load_tile_info(IF is_rendering_enabled(p)
                        THEN [p EXCEPT !.oam_copy_buffer = At(p.secondary_sprite_ram, 0)]
                        ELSE p)
    ELSE IF p.prev_rendering_enabled /\ (p.cycle = 328 \/ p.cycle = 336)
    THEN process_scanline_prefetch_shift(load_tile_info(p))
    ELSE load_tile_info(p)

\* variant of the skip that ignores the parity of the frame count
odd_frame_skip_every_frame(p) ==
    IF p.scanline = -1 /\ p.cycle = 339
    THEN [p EXCEPT !.cycle = 340]
    ELSE p

\* the skipped dot: cycle 339 of the pre-render line of an odd frame
odd_frame_skip(p) ==
    IF p.scanline = -1 /\ p.cycle = 339 /\ p.frame_count % 2 = 1
    THEN [p EXCEPT !.cycle = 340]
    ELSE p

\* cycle > 336
process_scanline_idle(p) ==
    IF (p.cycle = 337 \/ p.cycle = 339) /\ is_rendering_enabled(p)
    THEN odd_frame_skip(read_vram(p, get_nametable_addr(p)).ppu)
    ELSE p

process_scanline(p) ==
    IF p.cycle <= 256 THEN process_scanline_fetch(p)
    ELSE IF p.cycle >= 257 /\ p.cycle <= 320 THEN process_scanline_sprites(p)
    ELSE IF p.cycle >= 321 /\ p.cycle <= 336 THEN process_scanline_prefetch(p)
    ELSE process_scanline_idle(p)

-----------------------------------------------------------------------------
(* PPU::run: one dot step.  The result holds the PPU after the step and    *)
(* the returned frame-completion signal.                                   *)

\* the counters as the next scanline begins
run_next_line(p) ==
    IF p.scanline + 1 > 260
    THEN update_minimum_draw_cycles(
             [p EXCEPT !.cycle = 0, !.scanline = -1, !.sprite_count = 0])
    ELSE [p EXCEPT !.cycle = 0, !.scanline = @ + 1]

\* variant: the next frame buffer is allocated when the frame completes
run_new_line_alloc_at_240(p) ==
    IF p.scanline = -1
    THEN [ppu |-> [p EXCEPT !.status_flags =
                      set(set(@, Status_SPRITE_OVERFLOW, FALSE),
                          Status_SPRITE_ZERO_HIT, FALSE)],
          early |-> FALSE]
    ELSE IF p.scanline = 240
    THEN [ppu |-> [set_bus_address(p, p.vram_addr) EXCEPT !.frame_count = @ + 1,
                                                          !.curr_frame = Frame_new],
          early |-> TRUE]
    ELSE [ppu |-> p, early |-> FALSE]

\* the new scanline is -1 (a frame begins) or 240 (the frame is complete)
run_new_line(p) ==
    IF p.scanline = -1
    THEN [ppu |-> [p EXCEPT !.status_flags =
                      set(set(@, Status_SPRITE_OVERFLOW, FALSE),
                          Status_SPRITE_ZERO_HIT, FALSE),
                            !.curr_frame = Frame_new],
          early |-> FALSE]
    ELSE IF p.scanline = 240
    THEN [ppu |-> [set_bus_address(p, p.vram_addr) EXCEPT !.frame_count = @ + 1],
          early |-> TRUE]
    ELSE [ppu |-> p, early |-> FALSE]

\* cycle > 339: the next scanline begins; early: run returns at once
run_rollover(p) == run_new_line(run_next_line(p))

\* variant of the VBlank start that ignores the suppression flag
run_vblank_unconditional(p) ==
    [p EXCEPT !.status_flags = set(@, Status_VBLANK, TRUE),
              !.nmi_generated = IF contains(p.ctrl, Control_NMI) THEN TRUE ELSE @,
              !.prevent_vbl_flag = FALSE]

\* scanline 241, cycle 1
run_vblank(p) ==
    IF ~p.prevent_vbl_flag
    THEN [p EXCEPT !.status_flags = set(@, Status_VBLANK, TRUE),
                   !.nmi_generated =
                       IF contains(p.ctrl, Control_NMI) THEN TRUE ELSE @,
                   !.prevent_vbl_flag = FALSE]
    ELSE [p EXCEPT !.prevent_vbl_flag = FALSE]

\* cycle <= 339, after the cycle counter has advanced
run_dot(p) ==
    IF p.scanline < 240 THEN process_scanline(p)
    ELSE IF p.cycle = 1 /\ p.scanline = 241 THEN run_vblank(p)
    ELSE p

run_advance(p) == run_dot([p EXCEPT !.cycle = @ + 1])

\* the end of run: the pending state update, skipped by the early return
run_finish(r) ==
    IF r.early
    THEN [ppu |-> r.ppu, new_frame |-> TRUE]
    ELSE [ppu |-> IF r.ppu.need_state_update /\ ~r.ppu.panicked
                  THEN update_state(r.ppu) ELSE r.ppu,
          new_frame |-> FALSE]

run(p) ==
    run_finish(IF p.cycle > 339
               THEN run_rollover(p)
               ELSE [ppu |-> run_advance(p), early |-> FALSE])

\* the master clock advances by 4 per dot
run_to_clock(r) ==
    [ppu |-> IF r.ppu.panicked THEN r.ppu
             ELSE [r.ppu EXCEPT !.master_clock = @ + 4],
     new_frame |-> r.new_frame]

\* one iteration of the loop of PPU::run_to
run_to_step(p) == run_to_clock(run(p))

-----------------------------------------------------------------------------
(* Register ports of the PPU.                                              *)

write_ppumask(p, val) ==
    Let([p EXCEPT !.mask = val], LAMBDA p1:
        update_minimum_draw_cycles(
            IF p1.rendering_enabled # mask_rendering(p1)
            THEN [p1 EXCEPT !.need_state_update = TRUE]
            ELSE p1))

\* variant of the Address write that copies t to v at once
write_ppuaddr_immediate(p, val) ==
    IF p.w
    THEN LET t == Or(And(p.temp_vram_addr, Not16(255)), val)
         IN  [p EXCEPT !.temp_vram_addr = t,
                       !.vram_addr = t,
                       !.w = ~p.w]
    ELSE [p EXCEPT !.temp_vram_addr =
                       Or(And(p.temp_vram_addr, Not16(65280)), Shl(And(val, 63), 8)),
                   !.w = ~p.w]

write_ppuaddr(p, val) ==
    IF p.w
    THEN LET t == Or(And(p.temp_vram_addr, Not16(255)), val)
         IN  [p EXCEPT !.temp_vram_addr = t,
                       !.need_state_update = TRUE,
                       !.update_vram_addr_delay = 3,
                       !.update_vram_addr = t,
                       !.w = ~p.w]
    ELSE [p EXCEPT !.temp_vram_addr =
                       Or(And(p.temp_vram_addr, Not16(65280)), Shl(And(val, 63), 8)),
                   !.w = ~p.w]

\* variant of the Control write that never asserts NMI
write_ppuctrl_no_assert(p, val) ==
    Let([p EXCEPT !.ctrl = val,
                  !.temp_vram_addr = Or(And(@, Not16(3072)), Shl(And(val, 3), 10))],
        LAMBDA p1:
        IF ~contains(p1.ctrl, Control_NMI)
        THEN [p1 EXCEPT !.nmi_generated = FALSE]
        ELSE p1)

write_ppuctrl(p, val) ==
    Let([p EXCEPT !.ctrl = val,
                  !.temp_vram_addr = Or(And(@, Not16(3072)), Shl(And(val, 3), 10))],
        LAMBDA p1:
        IF ~contains(p1.ctrl, Control_NMI)
        THEN [p1 EXCEPT !.nmi_generated = FALSE]
        ELSE IF contains(p1.ctrl, Control_NMI) /\ contains(p1.status_flags, Status_VBLANK)
        THEN [p1 EXCEPT !.nmi_generated = TRUE]
        ELSE p1)

\* variant of the Scroll write whose second write also clears bits 10-11 of t
write_ppuscroll_clear_nametable(p, val) ==
    IF p.w
    THEN [p EXCEPT !.temp_vram_addr =
                       Or(Or(And(p.temp_vram_addr, Not16(32736)), Shl(And(val, 248), 2)),
                          Shl(And(val, 7), 12)),
                   !.w = ~p.w]
    ELSE [p EXCEPT !.x_scroll = And(val, 7),
                   !.temp_vram_addr = Or(And(p.temp_vram_addr, Not16(31)), Shr(val, 3)),
                   !.w = ~p.w]

write_ppuscroll(p, val) ==
    IF p.w
    THEN [p EXCEPT !.temp_vram_addr =
                       Or(Or(And(p.temp_vram_addr, Not16(29664)), Shl(And(val, 248), 2)),
                          Shl(And(val, 7), 12)),
                   !.w = ~p.w]
    ELSE [p EXCEPT !.x_scroll = And(val, 7),
                   !.temp_vram_addr = Or(And(p.temp_vram_addr, Not16(31)), Shr(val, 3)),
                   !.w = ~p.w]

\* variant of the Status read that never raises the suppression flag
update_status_flag_no_suppress(p) ==
    [p EXCEPT !.status = And(p.status_flags, 224),
              !.status_flags = set(@, Status_VBLANK, FALSE),
              !.nmi_generated = FALSE]

\* variant of the Status read that leaves VBlank set
update_status_flag_keep_vblank(p) ==
    [p EXCEPT !.status = And(p.status_flags, 224),
              !.nmi_generated = FALSE,
              !.prevent_vbl_flag =
                  IF p.scanline = 241 /\ p.cycle = 0 THEN TRUE ELSE @]

update_status_flag(p) ==
    [p EXCEPT !.status = And(p.status_flags, 224),
              !.status_flags = set(@, Status_VBLANK, FALSE),
              !.nmi_generated = FALSE,
              !.prevent_vbl_flag =
                  IF p.scanline = 241 /\ p.cycle = 0 THEN TRUE ELSE @]

\* variant of the Status read that leaves w alone
\* variant of the Status read that clears all three flags
read_ppustatus_clear_flags(p) ==
    Let(update_status_flag([p EXCEPT !.w = FALSE]), LAMBDA q:
        [ppu |-> [q EXCEPT !.status_flags = 0], val |-> q.status])

read_ppustatus_keep_w(p) ==
    Let(update_status_flag(p), LAMBDA q: [ppu |-> q, val |-> q.status])

\* result: the PPU after the read and the byte returned
read_ppustatus(p) ==
    Let(update_status_flag([p EXCEPT !.w = FALSE]), LAMBDA q:
        [ppu |-> q, val |-> q.status])

\* the byte returned by the Data port for the PPU p1 after the VRAM read
\* (buffered is the read buffer before it) and p2 after the address moved
read_ppudata_value(p1, p2, buffered) ==
    IF And(p1.ppu_bus_address, 16383) >= 16128
    THEN Or(Or(read_palette_ram(p1, p1.ppu_bus_address), And(p1.open_bus, 192)),
            And(p2.open_bus, 192))
    ELSE Or(buffered, And(p2.open_bus, 0))

read_ppudata(p) ==
    Let(read_vram(p, And(p.ppu_bus_address, 16383)), LAMBDA r:
    Let([r.ppu EXCEPT !.memory_read_buffer = r.val], LAMBDA p1:
    Let([update_video_ram_addr(p1) EXCEPT !.need_state_update = TRUE], LAMBDA p2:
        [ppu |-> p2, val |-> read_ppudata_value(p1, p2, p.memory_read_buffer)])))

\* the Data write stores val in palette RAM or in VRAM
write_ppudata_store(p, a, data) ==
    IF a >= 16128 THEN write_palette_ram(p, p.ppu_bus_address, data)
    ELSE IF p.scanline >= 240 \/ ~is_rendering_enabled(p)
    THEN write_vram(p, a, data)
    ELSE write_vram(p, a, And(p.ppu_bus_address, 255))

write_ppudata(p, data) ==
    update_video_ram_addr(write_ppudata_store(p, And(p.ppu_bus_address, 16383), data))

write_oamaddr(p, val) == [p EXCEPT !.sprite_ram_addr = val]

\* variant: the byte is stored and the address advances by one on every line
write_oamdata_always_store(p, val) ==
    IF p.sprite_ram_addr > 255
    THEN [p EXCEPT !.panicked = TRUE]
    ELSE [p EXCEPT !.sprite_ram =
                       Store(@, p.sprite_ram_addr,
                             IF And(p.sprite_ram_addr, 3) = 2
                             THEN And(val, 227) ELSE val),
                   !.sprite_ram_addr = And(p.sprite_ram_addr + 1, 255)]

\* variant: the attribute byte is stored with its unimplemented bits
write_oamdata_unmasked(p, val) ==
    IF p.scanline >= 240 \/ ~is_rendering_enabled(p)
    THEN IF p.sprite_ram_addr > 255
         THEN [p EXCEPT !.panicked = TRUE]
         ELSE [p EXCEPT !.sprite_ram = Store(@, p.sprite_ram_addr, val),
                        !.sprite_ram_addr = And(p.sprite_ram_addr + 1, 255)]
    ELSE [p EXCEPT !.sprite_ram_addr = And(p.sprite_ram_addr + 4, 255)]

write_oamdata(p, val) ==
    IF p.scanline >= 240 \/ ~is_rendering_enabled(p)
    THEN IF p.sprite_ram_addr > 255
         THEN [p EXCEPT !.panicked = TRUE]
         ELSE [p EXCEPT !.sprite_ram =
                            Store(@, p.sprite_ram_addr,
                                  IF And(p.sprite_ram_addr, 3) = 2
                                  THEN And(val, 227) ELSE val),
                        !.sprite_ram_addr = And(p.sprite_ram_addr + 1, 255)]
    ELSE [p EXCEPT !.sprite_ram_addr = And(p.sprite_ram_addr + 4, 255)]

read_oamdata(p) ==
    IF p.scanline <= 239 /\ is_rendering_enabled(p)
    THEN [ppu |-> IF p.cycle >= 257 /\ p.cycle <= 320
                  THEN LET step == Min((p.cycle - 257) % 8, 3)
                       IN  [p EXCEPT !.secondary_oam_addr =
                                         ((p.cycle - 257) \div 8) * 4 + step]
                  ELSE p,
          val |-> p.oam_copy_buffer]
    ELSE read_sprite_ram(p, p.sprite_ram_addr)

write_oamdma(p, data) ==
    [p EXCEPT !.sprite_dma_transfer = [enabled |-> TRUE, page |-> data]]

-----------------------------------------------------------------------------
(* Bus: dispatch of the eight PPU ports (address - 0x2000) % 8.            *)

PORT_CTRL    == 0
PORT_MASK    == 1
PORT_STATUS  == 2
PORT_OAMADDR == 3
PORT_OAMDATA == 4
PORT_SCROLL  == 5
PORT_ADDR    == 6
PORT_DATA    == 7

\* result: the PPU after the read and the byte handed to the CPU
execute_ppu_read(p, port) ==
    CASE port = PORT_STATUS  -> read_ppustatus(p)
      [] port = PORT_OAMDATA -> read_oamdata(p)
      [] port = PORT_DATA    -> read_ppudata(p)
      [] OTHER               -> [ppu |-> p, val |-> 0]

\* the write: open_bus takes the data, then the port's handler runs
execute_ppu_write_port(p, port, data) ==
    CASE port = PORT_CTRL    -> write_ppuctrl(p, data)
      [] port = PORT_MASK    -> write_ppumask(p, data)
      [] port = PORT_OAMADDR -> write_oamaddr(p, data)
      [] port = PORT_OAMDATA -> write_oamdata(p, data)
      [] port = PORT_SCROLL  -> write_ppuscroll(p, data)
      [] port = PORT_ADDR    -> write_ppuaddr(p, data)
      [] port = PORT_DATA    -> write_ppudata(p, data)
      [] OTHER               -> p

execute_ppu_write(p, port, data) ==
    execute_ppu_write_port([p EXCEPT !.open_bus = data], port, data)

-----------------------------------------------------------------------------
(* The CPU side (src/src/core/cpu/mod.rs, src/src/core/bus.rs): the clock  *)
(* of a CPU cycle, the NMI edge detector and the sprite DMA.  A machine s  *)
(* is the pair [cpu, ppu]; cpu keeps the fields of struct CPU that the     *)
(* clock, the NMI line and the DMA use, cpu_ram of the Bus, and the local  *)
(* variables of process_pending_dma while the DMA loop runs.  The APU and  *)
(* the IRQ line are left out: nothing they do reaches the PPU.             *)

\* variant: the loop is also left when a dot step completes a frame
RECURSIVE run_to_loop_until_frame(_, _)
run_to_loop_until_frame(r, cycle) ==
    IF r.ppu.panicked \/ r.ppu.master_clock + 4 > cycle \/ r.new_frame
    THEN r
    ELSE run_to_loop_until_frame(
             Let(run_to_step(r.ppu), LAMBDA n:
                 [ppu |-> n.ppu, new_frame |-> r.new_frame \/ n.new_frame,
                  steps |-> r.steps + 1]),
             cycle)

\* PPU::run_to: dot steps while master_clock + 4 <= cycle
RECURSIVE run_to_loop(_, _)
run_to_loop(r, cycle) ==
    IF r.ppu.panicked \/ r.ppu.master_clock + 4 > cycle
    THEN r
    ELSE run_to_loop(Let(run_to_step(r.ppu), LAMBDA n:
                         [ppu |-> n.ppu, new_frame |-> r.new_frame \/ n.new_frame,
                          steps |-> r.steps + 1]),
                     cycle)

\* result: the PPU after the call, the returned flag, and the number of
\* iterations the loop made
run_to(p, cycle) == run_to_loop([ppu |-> p, new_frame |-> FALSE, steps |-> 0], cycle)

Status_INTERRUPT_DISABLE == 4
Status_BREAK == 16
Status_BREAK2 == 32

CPU_new ==
    [ pc                  |-> 0,
      sp                  |-> 253,
      status              |-> Status_INTERRUPT_DISABLE,
      start_clock_count   |-> 6,
      end_clock_count     |-> 6,
      master_clock        |-> 0,
      cycle_count         |-> 0,
      ppu_offset          |-> 0,
      need_nmi            |-> FALSE,
      prev_need_nmi       |-> FALSE,
      prev_nmi_flag       |-> FALSE,
      need_halt           |-> FALSE,
      cpu_write           |-> FALSE,
      sprite_dma_transfer |-> FALSE,
      need_dummy_read     |-> FALSE,
      sprite_dma_offset   |-> 0,
      cpu_ram             |-> <<>>,
      \* process_pending_dma: "dma" inside the while loop, and its locals
      at                  |-> "idle",
      sprite_dma_counter  |-> 0,
      sprite_read_addr    |-> 0,
      read_val            |-> 0 ]

\* CPU::reset and cc - 7 CPU cycles after it: 12 master clocks per cycle,
\* the PPU one clock behind
CpuAfter(cc) ==
    [CPU_new EXCEPT !.master_clock = 12 * cc + 24,
                    !.cycle_count = cc,
                    !.ppu_offset = 1]

\* the dot steps done when the CPU is at the end of cycle cc
CpuDots(cc) == 3 * cc + 5

\* CPU::run_to, Bus::run_to: the PPU catches up, the frame flag is dropped
cpu_run_to(s) ==
    [s EXCEPT !.ppu = run_to(s.ppu, s.cpu.master_clock - s.cpu.ppu_offset).ppu]

start_cpu_cycle(s, is_read) ==
    cpu_run_to([s EXCEPT
        !.cpu.master_clock = @ + (IF is_read THEN s.cpu.start_clock_count - 1
                                  ELSE s.cpu.start_clock_count + 1),
        !.cpu.cycle_count = @ + 1])

\* the NMI edge detector: need_nmi rises when the line goes from low to high
end_cpu_cycle_nmi(s) ==
    [s EXCEPT !.cpu.prev_need_nmi = s.cpu.need_nmi,
              !.cpu.need_nmi = IF ~s.cpu.prev_nmi_flag /\ s.ppu.nmi_generated
                               THEN TRUE ELSE @,
              !.cpu.prev_nmi_flag = s.ppu.nmi_generated]

end_cpu_cycle(s, is_read) ==
    end_cpu_cycle_nmi(cpu_run_to([s EXCEPT
        !.cpu.master_clock = @ + (IF is_read THEN s.cpu.end_clock_count + 1
                                  ELSE s.cpu.end_clock_count - 1)]))

\* the program: the byte at address a is the low byte of a
prg_rom(addr) == And(addr, 255)

\* Bus::read: RAM (mirrored every 0x800), the PPU ports, the cartridge; the
\* APU range (APU and joypad, not modelled) reads as 0
Bus_read(s, addr) ==
    IF addr <= 8191
    THEN [cpu |-> s.cpu, ppu |-> s.ppu, val |-> Load(s.cpu.cpu_ram, And(addr, 2047))]
    ELSE IF addr <= 16383
    THEN Let(execute_ppu_read(s.ppu, (addr - 8192) % 8), LAMBDA r:
             [cpu |-> s.cpu, ppu |-> r.ppu, val |-> r.val])
    ELSE IF addr <= 16415
    THEN [cpu |-> s.cpu, ppu |-> s.ppu, val |-> 0]
    ELSE [cpu |-> s.cpu, ppu |-> s.ppu, val |-> prg_rom(addr)]

\* Bus::write: RAM, the PPU ports, and 0x4014 of the APU range
Bus_write(s, addr, data) ==
    IF addr <= 8191
    THEN [s EXCEPT !.cpu.cpu_ram = Store(@, And(addr, 2047), data)]
    ELSE IF addr <= 16383
    THEN [s EXCEPT !.ppu = execute_ppu_write(s.ppu, (addr - 8192) % 8, data)]
    ELSE IF addr <= 16415 /\ (addr - 16384) % 31 = 20
    THEN [s EXCEPT !.ppu = write_oamdma(s.ppu, data)]
    ELSE s

\* the machine after a read, its byte dropped
Machine(r) == [cpu |-> r.cpu, ppu |-> r.ppu]

poll_sprite_dma_flag(s) ==
    IF s.ppu.sprite_dma_transfer.enabled
    THEN [s EXCEPT !.cpu.sprite_dma_transfer = TRUE,
                   !.cpu.sprite_dma_offset = s.ppu.sprite_dma_transfer.page,
                   !.cpu.need_halt = TRUE]
    ELSE s

set_sprite_dma_transfer(s, val) ==
    [s EXCEPT !.ppu.sprite_dma_transfer = PPU_new.sprite_dma_transfer,
              !.cpu.sprite_dma_transfer = val]

process_cycle(s) ==
    start_cpu_cycle(IF s.cpu.need_halt THEN [s EXCEPT !.cpu.need_halt = FALSE]
                    ELSE IF s.cpu.need_dummy_read
                    THEN [s EXCEPT !.cpu.need_dummy_read = FALSE]
                    ELSE s,
                    TRUE)

memory_write(s, addr, val) ==
    Let(end_cpu_cycle(Bus_write(start_cpu_cycle([s EXCEPT !.cpu.cpu_write = TRUE],
                                                FALSE),
                                addr, val),
                      FALSE),
        LAMBDA t: [t EXCEPT !.cpu.cpu_write = FALSE])

\* the read cycle that ends memory_read, after process_pending_dma
memory_read_cycle(s, addr) ==
    end_cpu_cycle(Machine(Bus_read(start_cpu_cycle(s, TRUE), addr)), TRUE)

\* process_pending_dma up to the while loop: the halt cycle
process_pending_dma_halt(s, addr) ==
    Let(poll_sprite_dma_flag(s), LAMBDA t:
        IF t.cpu.need_halt
        THEN Let(end_cpu_cycle(Machine(Bus_read(start_cpu_cycle(t, TRUE), addr)), TRUE),
                 LAMBDA u: [u EXCEPT !.cpu.need_halt = FALSE,
                                     !.cpu.at = "dma",
                                     !.cpu.sprite_dma_counter = 0,
                                     !.cpu.sprite_read_addr = 0,
                                     !.cpu.read_val = 0])
        ELSE t)

\* the address the DMA reads next
dma_read_addr(c) == c.sprite_dma_offset * 256 + c.sprite_read_addr

\* an even cycle: the next byte of the page is read
dma_read_cycle(s) ==
    Let(Bus_read(process_cycle(s), dma_read_addr(s.cpu)), LAMBDA r:
        end_cpu_cycle([cpu |-> [r.cpu EXCEPT
                                   !.read_val = r.val,
                                   !.sprite_read_addr = (@ + 1) % 256,
                                   !.sprite_dma_counter = @ + 1],
                       ppu |-> r.ppu],
                      TRUE))

\* variant: the transfer is over one byte early
dma_write_done_early(s) ==
    IF s.cpu.sprite_dma_counter = 510 THEN set_sprite_dma_transfer(s, FALSE) ELSE s

\* the end of a write cycle: the transfer is over after 0x200 cycles
dma_write_done(s) ==
    IF s.cpu.sprite_dma_counter = 512 THEN set_sprite_dma_transfer(s, FALSE) ELSE s

\* an odd cycle after a read: the byte goes to OAM-Data
dma_write_cycle(s) ==
    Let(end_cpu_cycle(Bus_write(process_cycle(s), 8196, s.cpu.read_val), TRUE),
        LAMBDA t: dma_write_done([t EXCEPT !.cpu.sprite_dma_counter = @ + 1]))

\* an odd cycle before the first read: the alignment cycle
dma_dummy_cycle(s, addr) ==
    Let(process_cycle(s), LAMBDA t:
        end_cpu_cycle(IF addr = 16406 \/ addr = 16407 THEN t
                      ELSE Machine(Bus_read(t, addr)),
                      TRUE))

\* one iteration of the while loop of process_pending_dma
process_pending_dma_cycle(s, addr) ==
    IF s.cpu.cycle_count % 2 = 0
    THEN dma_read_cycle(s)
    ELSE IF s.cpu.sprite_dma_transfer /\ s.cpu.sprite_dma_counter % 2 # 0
    THEN dma_write_cycle(s)
    ELSE dma_dummy_cycle(s, addr)

\* the loop is left: memory_read goes on with its own read cycle
process_pending_dma_exit(s, addr) ==
    memory_read_cycle([s EXCEPT !.cpu.at = "idle"], addr)

\* the while loop of process_pending_dma, run to its end
RECURSIVE process_pending_dma_loop(_, _)
process_pending_dma_loop(s, addr) ==
    IF s.cpu.sprite_dma_transfer /\ ~s.ppu.panicked
    THEN process_pending_dma_loop(process_pending_dma_cycle(s, addr), addr)
    ELSE [s EXCEPT !.cpu.at = "idle"]

process_pending_dma(s, addr) ==
    Let(process_pending_dma_halt(s, addr), LAMBDA t:
        IF t.cpu.at = "dma" THEN process_pending_dma_loop(t, addr) ELSE t)

\* result: the machine after the read with the byte read
memory_read(s, addr) ==
    Let(process_pending_dma(s, addr), LAMBDA a:
        Let(start_cpu_cycle(a, TRUE), LAMBDA b:
            Let(Bus_read(b, addr), LAMBDA r:
                Let(end_cpu_cycle(Machine(r), TRUE), LAMBDA t:
                    [cpu |-> t.cpu, ppu |-> t.ppu, val |-> r.val]))))

memory_read_word(s, addr) ==
    Let(memory_read(s, addr), LAMBDA lo:
        Let(memory_read(Machine(lo), addr + 1), LAMBDA hi:
            [cpu |-> hi.cpu, ppu |-> hi.ppu, val |-> hi.val * 256 + lo.val]))

dummy_read(s) == Machine(memory_read(s, s.cpu.pc))

push(s, data) ==
    Let(memory_write(s, 256 + s.cpu.sp, data), LAMBDA t:
        [t EXCEPT !.cpu.sp = (@ - 1) % 256])

push_word(s, data) ==
    Let(push(s, data \div 256), LAMBDA t: push(t, data % 256))

\* the jump through an interrupt vector: I is set, pc is loaded
interrupt_vector(s, addr) ==
    Let([s EXCEPT !.cpu.status = Or(@, Status_INTERRUPT_DISABLE)], LAMBDA t:
        Let(memory_read_word(t, addr), LAMBDA r:
            [cpu |-> [r.cpu EXCEPT !.pc = r.val], ppu |-> r.ppu]))

\* SysFuncs::irq up to its test of need_nmi: two dummy reads, pc pushed
irq_head(s) ==
    Let(dummy_read(s), LAMBDA a:
        Let(dummy_read(a), LAMBDA b: push_word(b, s.cpu.pc)))

\* variant: the NMI vector is taken and need_nmi stays set
irq_take_keep_pending(t) ==
    Let(push(t, Or(t.cpu.status, Status_BREAK2)), LAMBDA u:
        interrupt_vector(u, IF t.cpu.need_nmi THEN 65530 ELSE 65534))

\* the rest of SysFuncs::irq: a pending NMI takes the vector at 0xFFFA and is
\* consumed, otherwise the IRQ vector at 0xFFFE is taken
irq_take(t) ==
    Let(push([t EXCEPT !.cpu.need_nmi = FALSE], Or(t.cpu.status, Status_BREAK2)),
        LAMBDA u: interrupt_vector(u, IF t.cpu.need_nmi THEN 65530 ELSE 65534))

\* SysFuncs::irq
irq(s) == Let(irq_head(s), LAMBDA h: irq_take(h))

\* SysFuncs::brk up to its test of need_nmi: pc + 1 pushed
brk_head(s) == push_word(s, (s.cpu.pc + 1) % 65536)

\* the rest of SysFuncs::brk: a pending NMI takes over the BRK
brk_take(t) ==
    Let(push([t EXCEPT !.cpu.need_nmi = FALSE],
             Or(Or(t.cpu.status, Status_BREAK), Status_BREAK2)),
        LAMBDA u:
        Let(interrupt_vector(u, IF t.cpu.need_nmi THEN 65530 ELSE 65534), LAMBDA w:
            [w EXCEPT !.cpu.prev_need_nmi = FALSE]))

\* SysFuncs::brk
brk(s) == Let(brk_head(s), LAMBDA h: brk_take(h))

\* CPU::get_op_code
get_op_code(s) ==
    Let(memory_read(s, s.cpu.pc), LAMBDA r:
        [cpu |-> [r.cpu EXCEPT !.pc = (@ + 1) % 65536], ppu |-> r.ppu, val |-> r.val])


-----------------------------------------------------------------------------
(* Bounds and inputs.                                                      *)

\* frame-completion signals after which the frame specification stops
MaxFrames == 3

\* dot steps and register accesses of one behaviour of the port specification
MaxDots == 4
MaxOps == 3

-----------------------------------------------------------------------------
(* Actions.  k is the number of past operations kept in hist, cap the      *)
(* value at which the access counter ops saturates.                        *)

Entry(op, arg, r) == [op |-> op, arg |-> arg, ret |-> r]

\* Mapper::get_nametable_idx: the physical bank behind logical nametable i
get_nametable_idx(mirroring, i) ==
    LET mapping == CASE mirroring = "Horizontal"    -> <<0, 0, 1, 1>>
                     [] mirroring = "Vertical"      -> <<0, 1, 0, 1>>
                     [] mirroring = "FourScreen"    -> <<0, 1, 2, 3>>
                     [] mirroring = "SingleScreenA" -> <<0, 0, 0, 0>>
                     [] OTHER                       -> <<1, 1, 1, 1>>
    IN  mapping[i + 1]

\* the address of a nametable access folded into 0x2000..=0x2FFF
NametableAddr(addr) == IF addr >= 12288 THEN addr - 4096 ELSE addr

\* Mapper::write_nametable on the reference banks b
write_nametable(b, mirroring, addr, val) ==
    LET a   == NametableAddr(addr)
        idx == get_nametable_idx(mirroring, (a - 8192) \div 1024)
    IN  [b EXCEPT ![idx + 1] = Store(@, a % 1024, val)]

\* Mapper::read_nametable on the reference banks b
read_nametable(b, mirroring, addr) ==
    LET a   == NametableAddr(addr)
        idx == get_nametable_idx(mirroring, (a - 8192) \div 1024)
    IN  Load(b[idx + 1], a % 1024)

EmptyBank == <<>>

\* the reference banks after write_ppudata(data) in state p: a write to
\* 0x2000..=0x3EFF stores the byte that write_ppudata hands to write_vram
BanksAfterData(p, data) ==
    LET a == And(p.ppu_bus_address, 16383)
    IN  IF a >= 8192 /\ a < 16128
        THEN write_nametable(banks, get_mirroring(p), a,
                             IF p.scanline >= 240 \/ ~is_rendering_enabled(p)
                             THEN data ELSE a % 256)
        ELSE banks

Push(e, k) ==
    IF k <= 1 THEN <<e>> ELSE <<e>> \o SubSeq(hist, 1, Min(Len(hist), k - 1))

last_op == hist[1].op

\* no sprite was copied yet
NoCopies == [line |-> 0, frame |-> 0, started |-> FALSE, resumed |-> FALSE]

\* the dot step from p to q runs an evaluation step (cycles 65..=256)
EvaluationStep(p, q) ==
    /\ q.scanline >= 0 /\ q.scanline < 240
    /\ q.cycle >= 65 /\ q.cycle <= 256
    /\ is_rendering_enabled(p)

\* the copies after the dot step from p to q: a sprite is copied whole when
\* the step moves the secondary-OAM address on to a multiple of 4; an
\* evaluation resumes when a step of it runs on a scanline on which none
\* ran at cycle 65
CopiesAfter(p, q) ==
    Let(IF q.cycle = 0 THEN 0
        ELSE IF q.secondary_oam_addr = p.secondary_oam_addr + 1
                /\ q.secondary_oam_addr % 4 = 0
        THEN copies.line + 1
        ELSE copies.line, LAMBDA n:
    Let(IF q.cycle = 0 THEN FALSE
        ELSE copies.started \/ (q.cycle = 65 /\ EvaluationStep(p, q)), LAMBDA st:
        [line    |-> n,
         frame   |-> IF q.scanline = -1 /\ q.cycle = 0 THEN 0
                     ELSE IF n > copies.frame THEN n ELSE copies.frame,
         started |-> st,
         resumed |-> IF q.scanline = -1 /\ q.cycle = 0 THEN FALSE
                     ELSE copies.resumed \/ (EvaluationStep(p, q) /\ ~st)]))

\* a dot step whose result is r
DotStepTo(r, k) ==
    /\ ~ppu.panicked
    /\ ppu' = r.ppu
    /\ hist' = Push(Entry("run", 0, r.new_frame), k)
    /\ dots' = dots + 1
    /\ frame_dots' = IF r.new_frame THEN 0 ELSE frame_dots + 1
    /\ signals' = IF r.new_frame THEN signals + 1 ELSE signals
    /\ frame_lens' = IF r.new_frame THEN <<frame_dots + 1, frame_lens[1]>> ELSE frame_lens
    /\ sup_read' = IF ppu.scanline = 241 /\ ppu.cycle = 1 /\ sup_read = 1 THEN 2 ELSE sup_read
    /\ addr_age' = IF addr_age >= 0 /\ ~r.new_frame THEN Min(addr_age + 1, 4) ELSE addr_age
    /\ copies' = CopiesAfter(ppu, r.ppu)
    /\ UNCHANGED <<ops, toggles, addr_val, banks, cpu, dma, nmi>>

\* one iteration of the loop of PPU::run_to: one call of PPU::run
DotStep(k) == DotStepTo(run_to_step(ppu), k)

\* a port read whose result is r
PortReadTo(r, port, name, k, cap) ==
    /\ ~ppu.panicked
    /\ ppu' = r.ppu
    /\ hist' = Push(Entry(name, 0, r.val), k)
    /\ ops' = Min(ops + 1, cap)
    /\ toggles' = IF port = PORT_STATUS THEN 0 ELSE toggles
    /\ sup_read' = IF port = PORT_STATUS /\ ppu.scanline = 241 /\ ppu.cycle = 0
                   THEN 1 ELSE sup_read
    /\ UNCHANGED <<dots, frame_dots, signals, frame_lens, addr_age, addr_val, banks, cpu, dma, nmi, copies>>

PortRead(port, name, k, cap) == PortReadTo(execute_ppu_read(ppu, port), port, name, k, cap)

PortWrite(port, data, name, k, cap) ==
    /\ ~ppu.panicked
    /\ ppu' = execute_ppu_write(ppu, port, data)
    /\ hist' = Push(Entry(name, data, FALSE), k)
    /\ ops' = Min(ops + 1, cap)
    /\ toggles' = IF port \in {PORT_SCROLL, PORT_ADDR} THEN toggles + 1 ELSE toggles
    /\ IF port = PORT_ADDR /\ ppu.w
       THEN /\ addr_age' = 0
            /\ addr_val' = Or(And(ppu.temp_vram_addr, 65280), data)
       ELSE UNCHANGED <<addr_age, addr_val>>
    /\ banks' = IF port = PORT_DATA THEN BanksAfterData(ppu, data) ELSE banks
    /\ UNCHANGED <<dots, frame_dots, signals, frame_lens, sup_read, cpu, dma, nmi, copies>>

ReadStatus(k, cap) == PortRead(PORT_STATUS, "read_ppustatus", k, cap)

WriteCtrl(data, k, cap) == PortWrite(PORT_CTRL, data, "write_ppuctrl", k, cap)

WriteMask(data, k, cap) == PortWrite(PORT_MASK, data, "write_ppumask", k, cap)

WriteScroll(data, k, cap) == PortWrite(PORT_SCROLL, data, "write_ppuscroll", k, cap)

WriteAddr(data, k, cap) == PortWrite(PORT_ADDR, data, "write_ppuaddr", k, cap)

ReadOamData(k, cap) == PortRead(PORT_OAMDATA, "read_oamdata", k, cap)

ReadData(k, cap) == PortRead(PORT_DATA, "read_ppudata", k, cap)

WriteOamAddr(data, k, cap) == PortWrite(PORT_OAMADDR, data, "write_oamaddr", k, cap)

WriteOamData(data, k, cap) == PortWrite(PORT_OAMDATA, data, "write_oamdata", k, cap)

WriteData(data, k, cap) == PortWrite(PORT_DATA, data, "write_ppudata", k, cap)

-----------------------------------------------------------------------------
(* The machine after construction, and after construction followed by      *)
(* run_to(4 n) with no register access: n dot steps with rendering off.    *)

\* no sprite DMA was started yet
NoDma == [start |-> 0, cycles |-> 0, writes |-> 0, outside |-> TRUE]

\* the NMI line was never raised
NoNmi == [asserted |-> 0, sampled |-> 0, delivered |-> 0, cycles |-> 0]

\* the ghost variables of the PPU at the start of a behaviour
InitTrace(op) ==
    /\ hist = <<Entry(op, 0, FALSE)>>
    /\ dots = 0
    /\ ops = 0
    /\ frame_dots = 0
    /\ signals = 0
    /\ frame_lens = <<0, 0>>
    /\ toggles = 0
    /\ sup_read = 0
    /\ addr_age = -1
    /\ addr_val = 0
    /\ banks = <<EmptyBank, EmptyBank, EmptyBank, EmptyBank>>

InitGhost(op) ==
    /\ InitTrace(op)
    /\ cpu = CPU_new
    /\ dma = NoDma
    /\ nmi = NoNmi
    /\ copies = NoCopies

InitNew == ppu = PPU_new /\ InitGhost("new")

\* dots of one frame with rendering off: 262 scanlines of 341 cycles
LineDots == 341
FrameDots == 262 * LineDots

\* with rendering off every visible dot draws palette entry 0 (colour 9 of the
\* system palette), and the draw limits become 300 at the first pre-render line
PowerOnAfter(n) ==
    LET pos   == n % FrameDots
        line  == pos \div LineDots
        cycle == pos % LineDots
        limit == IF n >= 261 * LineDots THEN 300 ELSE 0
    IN  [PPU_new EXCEPT
            !.cycle = cycle,
            !.scanline = IF line = 261 THEN -1 ELSE line,
            !.master_clock = 4 * n,
            !.minimum_draw_bg_cycle = limit,
            !.minimum_draw_sprite_cycle = limit,
            !.curr_frame =
                IF line = 261 \/ (line = 0 /\ cycle = 0) THEN Frame_new
                ELSE IF line >= 240
                THEN [written |-> TRUE, x |-> 255, y |-> 239, color |-> 9]
                ELSE IF cycle = 0
                THEN [written |-> TRUE, x |-> 255, y |-> line - 1, color |-> 9]
                ELSE [written |-> TRUE, x |-> Min(cycle, 256) - 1, y |-> line,
                      color |-> 9],
            !.frame_count =
                IF n >= 240 * LineDots
                THEN 2 + (n - 240 * LineDots) \div FrameDots ELSE 1,
            !.status_flags =
                IF pos >= 241 * LineDots + 1 /\ pos <= 261 * LineDots
                THEN Status_VBLANK ELSE 0]

\* the dot count at which a power-on run is at (scanline, cycle) of frame f
DotOf(f, scanline, cycle) ==
    f * FrameDots + (IF scanline = -1 THEN 261 ELSE scanline) * LineDots + cycle

PowerOnRun ==
    /\ signals < MaxFrames
    /\ DotStep(1)

SpecPowerOn == InitNew /\ [][PowerOnRun]_vars

\* the closed form above is the state the code reaches
PowerOnTrajectory == ppu = PowerOnAfter(dots)

-----------------------------------------------------------------------------
(* Frame specification: the program lets the machine run from power-on to  *)
(* the start of scanline 239, sets Mask once, and then the PPU runs until  *)
(* it has signalled MaxFrames frames.                                      *)

FrameCtrlVals == {0, 128}
FrameMaskVals == {0, 24}

InitFrame ==
    /\ ppu = PowerOnAfter(DotOf(0, 239, 0))
    /\ InitGhost("run_to")

FrameSetup ==
    /\ last_op = "run_to"
    /\ \E m \in FrameMaskVals : WriteMask(m, 1, 0)

FrameRun ==
    /\ last_op # "run_to"
    /\ signals < MaxFrames
    /\ DotStep(1)

NextFrame == FrameSetup \/ FrameRun

SpecFrame == InitFrame /\ [][NextFrame]_vars

-----------------------------------------------------------------------------
(* VBlank specification: the program lets the machine run from power-on to *)
(* the start of scanline 239 and sets Control and Mask once; then the PPU  *)
(* runs through the start of VBlank of VblFrames frames while the program  *)
(* may poll Status between any two dots of the scanlines VblPollLines.     *)

VblFrames == 2

\* the lines around the start of VBlank and the pre-render line
VblPollLines == {240, 241, 242, -1}

VblSetCtrl ==
    /\ last_op = "run_to"
    /\ \E c \in FrameCtrlVals : WriteCtrl(c, 1, 0)

VblSetMask ==
    /\ last_op = "write_ppuctrl"
    /\ dots = 0
    /\ \E m \in FrameMaskVals : WriteMask(m, 1, 0)

VblRun ==
    /\ last_op \notin {"run_to", "write_ppuctrl"}
    /\ signals < VblFrames \/ ppu.scanline \in {240, 241}
    /\ DotStep(1)

VblPoll ==
    /\ dots > 0
    /\ last_op = "run"
    /\ ppu.scanline \in VblPollLines
    /\ ReadStatus(1, 0)

NextVbl == VblSetCtrl \/ VblSetMask \/ VblRun \/ VblPoll

SpecVbl == InitFrame /\ [][NextVbl]_vars

-----------------------------------------------------------------------------
(* Scroll specification: at the end of the first VBlank the program sets  *)
(* up Mask, Control, the address and the scroll (at most ScrollOps         *)
(* accesses, all on scanline 260), and the PPU then runs the pre-render    *)
(* line through cycle 305 with no further access.                          *)

ScrollOps == 5

ScrollMaskVals == {24}
ScrollCtrlVals == {2}
ScrollBytes == {125, 255}

InitScroll ==
    /\ ppu = PowerOnAfter(DotOf(0, 260, 336))
    /\ InitGhost("run_to")

ScrollAccessible == ppu.scanline = 260 /\ ops < ScrollOps

ScrollDot ==
    /\ ppu.scanline = 260 \/ ppu.cycle < 305
    /\ DotStep(1)

ScrollWriteMask ==
    ScrollAccessible /\ \E m \in ScrollMaskVals : WriteMask(m, 1, ScrollOps)

ScrollWriteCtrl ==
    ScrollAccessible /\ \E c \in ScrollCtrlVals : WriteCtrl(c, 1, ScrollOps)

ScrollWriteScroll ==
    ScrollAccessible /\ \E b \in ScrollBytes : WriteScroll(b, 1, ScrollOps)

ScrollWriteAddr ==
    ScrollAccessible /\ \E b \in ScrollBytes : WriteAddr(b, 1, ScrollOps)

NextScroll ==
    \/ ScrollDot
    \/ ScrollWriteMask
    \/ ScrollWriteCtrl
    \/ ScrollWriteScroll
    \/ ScrollWriteAddr

SpecScroll == InitScroll /\ [][NextScroll]_vars

-----------------------------------------------------------------------------
(* Port specification: the program has let the machine run from power-on   *)
(* to one of the dots of StartDots; from there at most MaxDots dot steps   *)
(* interleave with at most MaxOps accesses of the PPU ports.               *)

\* a visible line before the reload of cycle 257, the end of the last visible
\* line, the end of the line before VBlank, VBlank, the end of VBlank, and the
\* end of the pre-render line of an odd frame
StartDots ==
    { DotOf(0, 100, 254),  DotOf(0, 239, 339),  DotOf(0, 240, 339),
      DotOf(0, 250, 100),  DotOf(0, 260, 339),  DotOf(1, -1, 337) }

CtrlVals == {0, 131}
MaskVals == {0, 24}
Bytes == {125, 255}
OamAddrs == {255}
DataBytes == {37}

Init ==
    /\ \E n \in StartDots : ppu = PowerOnAfter(n)
    /\ InitGhost("run_to")

PortDot == dots < MaxDots /\ DotStep(2)

PortReadStatus == ops < MaxOps /\ ReadStatus(2, MaxOps)

PortWriteCtrl == ops < MaxOps /\ \E c \in CtrlVals : WriteCtrl(c, 2, MaxOps)

PortWriteMask == ops < MaxOps /\ \E m \in MaskVals : WriteMask(m, 2, MaxOps)

PortWriteScroll == ops < MaxOps /\ \E b \in Bytes : WriteScroll(b, 2, MaxOps)

PortWriteAddr == ops < MaxOps /\ \E b \in Bytes : WriteAddr(b, 2, MaxOps)

PortReadOamData == ops < MaxOps /\ ReadOamData(2, MaxOps)

PortReadData == ops < MaxOps /\ ReadData(2, MaxOps)

PortWriteOamAddr == ops < MaxOps /\ \E b \in OamAddrs : WriteOamAddr(b, 2, MaxOps)

PortWriteOamData == ops < MaxOps /\ \E b \in DataBytes : WriteOamData(b, 2, MaxOps)

PortWriteData == ops < MaxOps /\ \E b \in DataBytes : WriteData(b, 2, MaxOps)

Next ==
    \/ PortDot
    \/ PortReadStatus
    \/ PortWriteCtrl
    \/ PortWriteMask
    \/ PortWriteScroll
    \/ PortWriteAddr
    \/ PortReadOamData
    \/ PortReadData
    \/ PortWriteOamAddr
    \/ PortWriteOamData
    \/ PortWriteData

Spec == Init /\ [][Next]_vars

-----------------------------------------------------------------------------
(* Properties.                                                             *)

VBlank(p) == contains(p.status_flags, Status_VBLANK)

NmiEnabled(p) == contains(p.ctrl, Control_NMI)

IsRun(h) == h[1].op = "run"

\* the step is a dot step that brings the counter to (scanline, cycle)
DotTo(scanline, cycle) ==
    /\ dots' = dots + 1
    /\ ppu'.scanline = scanline
    /\ ppu'.cycle = cycle

\* C1: the counter stays inside scanline -1..=260, cycle 0..=340; a frame
\* (the dot steps from one completion signal to the next) takes 89,341 dot
\* steps when rendering is on and the frame count of its pre-render line is
\* odd, and 89,342 otherwise, so that with rendering on consecutive frames
\* alternate and with rendering off every frame takes 89,342.
C1_FrameLength ==
    /\ ppu.scanline \in -1 .. 260
    /\ ppu.cycle \in 0 .. 340
    /\ signals >= 2 =>
         frame_lens[1] =
             IF mask_rendering(ppu) /\ (ppu.frame_count - 1) % 2 = 1
             THEN 89341 ELSE 89342
    /\ (signals >= 3 /\ mask_rendering(ppu)) =>
         {frame_lens[1], frame_lens[2]} = {89341, 89342}
    /\ (signals >= 3 /\ ~mask_rendering(ppu)) =>
         frame_lens = <<89342, 89342>>

C1_Witness ==
    /\ signals = 3
    /\ mask_rendering(ppu)
    /\ frame_lens = <<89341, 89342>>

\* C2: VBlank goes from clear to set only in the dot step that brings the
\* counter to (241, 1) with no suppression pending; that step sets VBlank
\* exactly when no suppression is pending and asserts NMI exactly when it
\* sets VBlank and NMI-enable is set.
C2_VBlankSet ==
    [][ /\ (VBlank(ppu') /\ ~VBlank(ppu)) =>
             (DotTo(241, 1) /\ ~ppu.prevent_vbl_flag)
        /\ DotTo(241, 1) =>
             /\ VBlank(ppu') <=> ~ppu.prevent_vbl_flag
             /\ ppu'.nmi_generated <=> (~ppu.prevent_vbl_flag /\ NmiEnabled(ppu))
      ]_vars

C2_Witness ==
    /\ IsRun(hist)
    /\ ppu.scanline = 241 /\ ppu.cycle = 1
    /\ VBlank(ppu)
    /\ ppu.nmi_generated

\* C3: right after the dot step to (241, 1), VBlank is set exactly when Status
\* was not read at (241, 0) of this frame, and NMI is asserted exactly when
\* VBlank was set and NMI-enable is set: a read at (241, 0) suppresses both
\* for this frame only, and reads elsewhere suppress nothing.
C3_Suppression ==
    (IsRun(hist) /\ ppu.scanline = 241 /\ ppu.cycle = 1) =>
        /\ VBlank(ppu) <=> sup_read # 1
        /\ ppu.nmi_generated <=> (sup_read # 1 /\ NmiEnabled(ppu))

\* VBlank and NMI at (241, 1) of a frame after a frame whose VBlank was suppressed
C3_Witness ==
    /\ IsRun(hist)
    /\ ppu.scanline = 241 /\ ppu.cycle = 1
    /\ sup_read = 2
    /\ VBlank(ppu)
    /\ ppu.nmi_generated

TwoInRow(op) == Len(hist) >= 2 /\ hist[1].op = op /\ hist[2].op = op

\* C4: of two Status reads with no dot step (and no other access) between
\* them the second returns bit 7 clear; a Status read leaves VBlank and w clear.
C4_SecondRead ==
    /\ TwoInRow("read_ppustatus") => hist[1].ret < 128
    /\ hist[1].op = "read_ppustatus" => (~VBlank(ppu) /\ ~ppu.w)

C4_Witness ==
    /\ TwoInRow("read_ppustatus")
    /\ hist[2].ret >= 128
    /\ hist[1].ret < 128

\* C5: a Status read returns (flags & 0xE0) | (open_bus & 0x1F).
C5_StatusByte ==
    [][ hist'[1].op = "read_ppustatus" /\ ops' = ops + 1 =>
            hist'[1].ret = Or(And(ppu.status_flags, 224), And(ppu.open_bus, 31))
      ]_vars

\* C6: a Control write with NMI-enable set while VBlank is set leaves NMI
\* asserted, a Control write with NMI-enable clear leaves NMI deasserted.
C6_CtrlNmi ==
    [][ hist'[1].op = "write_ppuctrl" /\ ops' = ops + 1 =>
            /\ (hist'[1].arg >= 128 /\ VBlank(ppu)) => ppu'.nmi_generated
            /\ hist'[1].arg < 128 => ~ppu'.nmi_generated
      ]_vars

\* NMI asserted by a Control write that is the first access after power-on
C6_Witness ==
    /\ Len(hist) = 2
    /\ hist[1].op = "write_ppuctrl"
    /\ hist[2].op = "run_to"
    /\ VBlank(ppu)
    /\ ppu.nmi_generated

\* C7: w is the parity of the number of Scroll/Address writes since the last
\* Status read (since power-on when there was none).
C7_WriteToggle == ppu.w = (toggles % 2 = 1)

C7_Witness ==
    /\ Len(hist) = 2
    /\ hist[2].op = "read_ppustatus"
    /\ hist[1].op \in {"write_ppuscroll", "write_ppuaddr"}
    /\ ops = 3
    /\ ppu.w

\* C8: after Scroll writes x then y from w = 0, fine-x = x & 7 and t holds
\* coarse-X = x >> 3, coarse-Y = y >> 3, fine-Y = y & 7; a Scroll write leaves
\* bits 10-11 of t alone; fine-x changes only in a Scroll write made with w = 0.
C8_ScrollPair ==
    /\ [] ( (TwoInRow("write_ppuscroll") /\ ~ppu.w) =>
              /\ ppu.x_scroll = And(hist[2].arg, 7)
              /\ And(ppu.temp_vram_addr, 31) = Shr(hist[2].arg, 3)
              /\ And(Shr(ppu.temp_vram_addr, 5), 31) = Shr(hist[1].arg, 3)
              /\ And(Shr(ppu.temp_vram_addr, 12), 7) = And(hist[1].arg, 7) )
    /\ [][ /\ hist'[1].op = "write_ppuscroll" /\ ops' = ops + 1 =>
                And(ppu'.temp_vram_addr, 3072) = And(ppu.temp_vram_addr, 3072)
           /\ ppu'.x_scroll # ppu.x_scroll =>
                (hist'[1].op = "write_ppuscroll" /\ ~ppu.w)
         ]_vars

C8_Witness ==
    /\ TwoInRow("write_ppuscroll")
    /\ ~ppu.w
    /\ hist[2].arg = 125 /\ hist[1].arg = 255
    /\ ppu.x_scroll = 5
    /\ ppu.temp_vram_addr = 28672 + 3072 + 31 * 32 + 15

AddrPair == Or(Shl(And(hist[2].arg, 63), 8), hist[1].arg)

\* C9 as stated: after Address writes hi then lo from w = 0,
\* t = ((hi & 0x3F) << 8) | lo and v = t as soon as the second write returns.
C9_AddrPairImmediate ==
    (TwoInRow("write_ppuaddr") /\ ~ppu.w) =>
        /\ ppu.temp_vram_addr = AddrPair
        /\ ppu.vram_addr = ppu.temp_vram_addr

\* C9 amended: after Address writes hi then lo from w = 0,
\* t = ((hi & 0x3F) << 8) | lo; the write itself leaves v alone; v (and t)
\* take the written address in the third dot step after the second write,
\* not counting a dot step that signals frame completion; with rendering off
\* that is the only way a dot step changes v.
C9_AddrPairDelayed ==
    /\ [] ( (TwoInRow("write_ppuaddr") /\ ~ppu.w) =>
              /\ ppu.temp_vram_addr = AddrPair
              /\ addr_val = AddrPair )
    /\ [] ( (IsRun(hist) /\ ~hist[1].ret /\ addr_age = 3) =>
              /\ ppu.vram_addr = addr_val
              /\ ppu.temp_vram_addr = addr_val )
    /\ [][ /\ hist'[1].op = "write_ppuaddr" /\ ops' = ops + 1 =>
                ppu'.vram_addr = ppu.vram_addr
           /\ ( /\ dots' = dots + 1
                /\ ~ppu.rendering_enabled /\ ~ppu.prev_rendering_enabled
                /\ ppu'.vram_addr # ppu.vram_addr ) =>
                (addr_age' = 3 /\ ppu'.vram_addr = addr_val)
         ]_vars

C9_Witness ==
    /\ IsRun(hist) /\ ~hist[1].ret
    /\ addr_age = 3
    /\ addr_val = 63 * 256 + 125
    /\ ppu.vram_addr = addr_val

\* C10: on the pre-render line, rendered with no register access, v = t in
\* all 15 bits at cycle 304 when rendering is on; the dot step to cycle 257
\* leaves the horizontal bits (0x041F) of v equal to those of t and the dot
\* steps to cycles 280..=304 leave the vertical bits (0x7BE0) equal.
C10_ScrollRoundTrip ==
    /\ [] ( ( /\ ppu.scanline = -1 /\ ppu.cycle = 304
              /\ ppu.rendering_enabled /\ ppu.prev_rendering_enabled ) =>
            ppu.vram_addr = ppu.temp_vram_addr )
    /\ [][ /\ (DotTo(-1, 257) /\ ppu.prev_rendering_enabled) =>
                And(ppu'.vram_addr, 1055) = And(ppu'.temp_vram_addr, 1055)
           /\ ( /\ dots' = dots + 1 /\ ppu'.scanline = -1
                /\ ppu'.cycle >= 280 /\ ppu'.cycle <= 304
                /\ ppu.rendering_enabled ) =>
                And(ppu'.vram_addr, 31712) = And(ppu'.temp_vram_addr, 31712)
         ]_vars

\* v, set to another address by an Address pair, reproduces the t that the
\* Scroll writes x = 0x7D, y = 0xFF packed
C10_Witness ==
    /\ ppu.scanline = -1 /\ ppu.cycle = 304
    /\ ppu.rendering_enabled /\ ppu.prev_rendering_enabled
    /\ ppu.x_scroll = 5
    /\ And(ppu.temp_vram_addr, 31) = 15
    /\ And(Shr(ppu.temp_vram_addr, 5), 31) = 31
    /\ And(Shr(ppu.temp_vram_addr, 12), 7) = 7
    /\ addr_age = 4
    /\ addr_val # ppu.temp_vram_addr
    /\ ppu.vram_addr = ppu.temp_vram_addr

-----------------------------------------------------------------------------
(* Data specification: the program has let the machine run from power-on   *)
(* to one of the dots of DataStartDots; it may set Control and Mask first, *)
(* and then makes at most DataOps accesses of the Address and Data ports.  *)
(* The PPU runs (at most DataDots dot steps) only while a state update is  *)
(* pending, so that accesses meet the PPU both before and after a written  *)
(* address or mask has taken effect; the two writes of an address follow   *)
(* each other directly.                                                    *)

DataOps == 6
DataDots == 7

\* VBlank and a visible line
DataStartDots == { DotOf(0, 245, 10), DotOf(0, 100, 100) }

\* Control: increment by 1, increment by 32
DataCtrlVals == {0, 4}
DataMaskVals == {24}

\* halves of the addresses 0x0000..0x3F3F: pattern table (0x00, 0x10),
\* nametable (0x2F), palette (0x3F)
DataAddrBytes == {0, 16, 47, 63}
DataBytes2 == {37, 255}

InitData ==
    /\ \E n \in DataStartDots : ppu = PowerOnAfter(n)
    /\ InitGhost("run_to")

DataDot ==
    /\ dots < DataDots
    /\ ppu.need_state_update
    /\ ~ppu.w
    /\ DotStep(2)

DataSetCtrl ==
    /\ last_op = "run_to"
    /\ \E c \in DataCtrlVals : WriteCtrl(c, 2, DataOps)

DataSetMask ==
    /\ last_op \in {"run_to", "write_ppuctrl"}
    /\ \E m \in DataMaskVals : WriteMask(m, 2, DataOps)

DataWriteAddr ==
    /\ ops < DataOps
    /\ \E b \in DataAddrBytes : WriteAddr(b, 2, DataOps)

DataRead == ops < DataOps /\ ~ppu.w /\ ReadData(2, DataOps)

DataWrite ==
    /\ ops < DataOps
    /\ ~ppu.w
    /\ \E b \in DataBytes2 : WriteData(b, 2, DataOps)

NextData ==
    \/ DataDot
    \/ DataSetCtrl
    \/ DataSetMask
    \/ DataWriteAddr
    \/ DataRead
    \/ DataWrite

SpecData == InitData /\ [][NextData]_vars

-----------------------------------------------------------------------------
(* The fields of a 15-bit scroll address and its two increments, written   *)
(* with arithmetic on the fields.                                          *)

CoarseX(v) == v % 32

CoarseY(v) == (v \div 32) % 32

NametableSelect(v) == (v \div 1024) % 4

FineY(v) == (v \div 4096) % 8

Pack(cx, cy, nt, fy) == cx + 32 * cy + 1024 * nt + 4096 * fy

\* coarse-X wraps within its 5 bits and toggles bit 10
CoarseXIncrement(v) ==
    IF CoarseX(v) = 31
    THEN Pack(0, CoarseY(v),
              IF NametableSelect(v) % 2 = 0 THEN NametableSelect(v) + 1
              ELSE NametableSelect(v) - 1,
              FineY(v))
    ELSE Pack(CoarseX(v) + 1, CoarseY(v), NametableSelect(v), FineY(v))

\* fine-Y below 7 is incremented; at 7 it wraps into coarse-Y, which wraps at
\* 29 (toggling bit 11) and at 31 (toggling nothing)
VerticalIncrement(v) ==
    IF FineY(v) < 7
    THEN Pack(CoarseX(v), CoarseY(v), NametableSelect(v), FineY(v) + 1)
    ELSE IF CoarseY(v) = 29
    THEN Pack(CoarseX(v), 0,
              IF NametableSelect(v) >= 2 THEN NametableSelect(v) - 2
              ELSE NametableSelect(v) + 2,
              0)
    ELSE IF CoarseY(v) = 31
    THEN Pack(CoarseX(v), 0, NametableSelect(v), 0)
    ELSE Pack(CoarseX(v), CoarseY(v) + 1, NametableSelect(v), 0)

\* the step is an access of the Data port
DataAccess == hist'[1].op \in {"read_ppudata", "write_ppudata"} /\ ops' = ops + 1

\* the increment selected by Control
DataStride(p) == IF contains(p.ctrl, Control_INCREMENT) THEN 32 ELSE 1

\* C11 as stated: every Data-port read and write adds 1 (increment bit of
\* Control clear) or 32 (set) to v, masked to 15 bits, at every point of the
\* frame.
C11_DataIncrementAlways ==
    [][ DataAccess => ppu'.vram_addr = (ppu.vram_addr + DataStride(ppu)) % 32768 ]_vars

\* C11 amended: a Data-port read or write made in VBlank (scanline >= 240) or
\* with rendering off adds 1 or 32 to v, masked to 15 bits; one made on
\* scanlines -1..=239 with rendering on instead applies the coarse-X
\* increment and then the vertical increment to v, whatever the increment bit.
C11_DataIncrement ==
    [][ DataAccess =>
          ppu'.vram_addr =
              IF ppu.scanline >= 240 \/ ~ppu.rendering_enabled
              THEN (ppu.vram_addr + DataStride(ppu)) % 32768
              ELSE VerticalIncrement(CoarseXIncrement(ppu.vram_addr))
      ]_vars

\* a Data read in VBlank that moved v from the written address 0x3F10 by 32
C11_Witness ==
    /\ hist[1].op = "read_ppudata"
    /\ ppu.scanline >= 240
    /\ DataStride(ppu) = 32
    /\ addr_val = 63 * 256 + 16
    /\ ppu.vram_addr = addr_val + 32

\* the step is a Data-port read / write made outside rendering
DataReadOutside ==
    /\ hist'[1].op = "read_ppudata" /\ ops' = ops + 1
    /\ ppu.scanline >= 240 \/ ~ppu.rendering_enabled

DataWriteOutside ==
    /\ hist'[1].op = "write_ppudata" /\ ops' = ops + 1
    /\ ppu.scanline >= 240 \/ ~ppu.rendering_enabled

\* the address a Data-port access uses: the low 14 bits of v
DataAddress(p) == p.vram_addr % 16384

\* the palette entry behind a palette address: 32 entries, of which
\* 0x10/0x14/0x18/0x1C are the entries 0x00/0x04/0x08/0x0C
PaletteEntry(a) ==
    IF (a % 32) \in {16, 20, 24, 28} THEN (a % 32) - 16 ELSE a % 32

\* C12: outside rendering a Data read below 0x3F00 returns the read buffer
\* and refills it with the byte at the current address; a Data read at
\* 0x3F00..=0x3FFF returns the palette byte at once (low six bits) and
\* refills the buffer with the nametable byte underneath (address - 0x1000);
\* a Data write leaves the read buffer alone.
C12_ReadBuffer ==
    [][ /\ DataReadOutside =>
             IF DataAddress(ppu) < 16128
             THEN /\ hist'[1].ret = ppu.memory_read_buffer
                  /\ ppu'.memory_read_buffer = read_vram(ppu, DataAddress(ppu)).val
             ELSE /\ hist'[1].ret % 64 = At(ppu.palette, PaletteEntry(DataAddress(ppu)))
                  /\ ppu'.memory_read_buffer =
                         read_vram(ppu, DataAddress(ppu) - 4096).val
        /\ (hist'[1].op = "write_ppudata" /\ ops' = ops + 1) =>
             ppu'.memory_read_buffer = ppu.memory_read_buffer
      ]_vars

\* C13: palette entries 0x10, 0x14, 0x18, 0x1C hold the same values as
\* entries 0x00, 0x04, 0x08, 0x0C.
C13_PaletteMirror ==
    \A i \in {0, 4, 8, 12} : At(ppu.palette, 16 + i) = At(ppu.palette, i)

\* C14: a byte b written through the Data port to a palette address is what
\* a Data read of that address, or of the other address of its mirrored
\* pair, returns in its low six bits: the write leaves b & 0x3F in the
\* palette entry behind the address, and a read returns the entry behind its
\* address.
C14_PaletteRoundTrip ==
    [][ /\ (DataWriteOutside /\ DataAddress(ppu) >= 16128) =>
             At(ppu'.palette, PaletteEntry(DataAddress(ppu))) = hist'[1].arg % 64
        /\ (DataReadOutside /\ DataAddress(ppu) >= 16128) =>
             hist'[1].ret % 64 = At(ppu.palette, PaletteEntry(DataAddress(ppu)))
      ]_vars

-----------------------------------------------------------------------------
(* Nametable accesses through the Data port in VBlank, with a cartridge    *)
(* whose mapper changes the mirroring mode (MMC1 control register).        *)

MirrorOps == 7
MirrorDots == 6
\* high address bytes of the logical nametables 0, 1 and 2
MirrorHiBytes == {32, 36, 40}
MirrorData == {37}
\* values of the two mirroring bits of the MMC1 control register
MirrorControls == {0, 1, 2}

\* MMC1::get_mirroring for control register c
MMC1_get_mirroring(c) ==
    CASE c % 4 = 0 -> "Horizontal"
      [] c % 4 = 1 -> "Vertical"
      [] OTHER     -> "FourScreen"

InitMirror == ppu = PowerOnAfter(DotOf(0, 245, 10)) /\ InitGhost("run_to")

MirrorDot == /\ dots < MirrorDots /\ ppu.need_state_update /\ ~ppu.w /\ DotStep(2)

MirrorWriteAddr ==
    /\ ops < MirrorOps
    /\ \E b \in (IF ppu.w THEN {0} ELSE MirrorHiBytes) : WriteAddr(b, 2, MirrorOps)

MirrorRead == ops < MirrorOps /\ ~ppu.w /\ ReadData(2, MirrorOps)

MirrorWrite == /\ ops < MirrorOps /\ ~ppu.w /\ \E b \in MirrorData : WriteData(b, 2, MirrorOps)

\* the mapper's control register is loaded: the mirroring mode changes
MirrorControl ==
    /\ ops < MirrorOps /\ ~ppu.w /\ ~ppu.need_state_update
    /\ \E c \in MirrorControls :
         /\ MMC1_get_mirroring(c) # get_mirroring(ppu)
         /\ ppu' = [ppu EXCEPT !.mapper.mirroring = MMC1_get_mirroring(c)]
         /\ hist' = Push(Entry("write_control", c, FALSE), 2)
    /\ ops' = ops + 1
    /\ UNCHANGED <<dots, frame_dots, signals, frame_lens, toggles, sup_read,
                   addr_age, addr_val, banks, cpu, dma, nmi, copies>>

NextMirror == MirrorDot \/ MirrorWriteAddr \/ MirrorRead \/ MirrorWrite \/ MirrorControl

SpecMirror == InitMirror /\ [][NextMirror]_vars

-----------------------------------------------------------------------------
(* v at the top of its range: the program has loaded v with fine-Y,        *)
(* coarse-Y and coarse-X at or near their maxima (Scroll, Scroll, Scroll,  *)
(* Address: the second Address write copies t, fine-Y included, to v),     *)
(* then accesses the ports and runs dots in VBlank and on a visible line.  *)

WrapOps == 4
WrapDots == 6
\* VBlank, and a visible line shortly before the vertical increment at cycle 256
WrapStartDots == { DotOf(0, 245, 10), DotOf(0, 100, 249) }
\* nametable select 3 with increment 1, nametable select 0 with increment 32
WrapCtrlVals == {3, 4}
\* second Scroll write: fine-Y 7 with coarse-Y bits 3-4 set, fine-Y 3
WrapScrollY == {255, 43}
\* low address byte: coarse-X 31 with coarse-Y bits 0-2 = 7 (coarse-Y 31) or 5 (coarse-Y 29), 0
WrapAddrLo == {255, 191, 0}
WrapMaskVals == {24}
WrapBytes == {255}

\* three dot steps
run_3(p) == run_to_step(run_to_step(run_to_step(p).ppu).ppu).ppu

\* Control c, Scroll 0, Scroll y, Scroll 0, Address lo, then three dot steps:
\* v = t = fine-Y and coarse-Y bits 3-4 of y, nametable select of c, low byte lo
load_v(p, c, y, lo) ==
    run_3(execute_ppu_write(execute_ppu_write(execute_ppu_write(execute_ppu_write(
          execute_ppu_write(p, PORT_CTRL, c), PORT_SCROLL, 0), PORT_SCROLL, y),
          PORT_SCROLL, 0), PORT_ADDR, lo))

InitWrap ==
    /\ \E n \in WrapStartDots, c \in WrapCtrlVals, y \in WrapScrollY, lo \in WrapAddrLo :
          /\ ppu = load_v(PowerOnAfter(n), c, y, lo)
          /\ addr_val = ppu.temp_vram_addr
    /\ hist = <<Entry("run", 0, FALSE)>>
    /\ dots = 0
    /\ ops = 0
    /\ frame_dots = 0
    /\ signals = 0
    /\ frame_lens = <<0, 0>>
    /\ toggles = 4
    /\ sup_read = 0
    /\ addr_age = 3
    /\ banks = <<EmptyBank, EmptyBank, EmptyBank, EmptyBank>>
    /\ cpu = CPU_new
    /\ dma = NoDma
    /\ nmi = NoNmi
    /\ copies = NoCopies

WrapDot == dots < WrapDots /\ DotStep(2)

WrapSetMask == /\ ops < WrapOps /\ \E m \in WrapMaskVals : m # ppu.mask /\ WriteMask(m, 2, WrapOps)

WrapRead == ops < WrapOps /\ ReadData(2, WrapOps)

WrapWrite == /\ ops < WrapOps /\ \E b \in WrapBytes : WriteData(b, 2, WrapOps)

WrapScroll == /\ ops < WrapOps /\ \E b \in WrapBytes : WriteScroll(b, 2, WrapOps)

WrapAddr == /\ ops < WrapOps /\ \E b \in WrapBytes : WriteAddr(b, 2, WrapOps)

NextWrap == WrapDot \/ WrapSetMask \/ WrapRead \/ WrapWrite \/ WrapScroll \/ WrapAddr

SpecWrap == InitWrap /\ [][NextWrap]_vars

\* C16: in every reachable state v and t are below 0x8000: no increment of v
\* (Data-port increment by 1 or 32, coarse-X increment, vertical increment)
\* and no register write carries into bit 15.
C16_FifteenBits == ppu.vram_addr < 32768 /\ ppu.temp_vram_addr < 32768

\* v was 0x7FFF (the address loaded three dot steps earlier) and a Data read
\* in VBlank has incremented it by one: it wrapped to 0
C16_Witness ==
    /\ Len(hist) = 2 /\ hist[1].op = "read_ppudata" /\ hist[2].op = "run"
    /\ ops = 1 /\ dots = 0
    /\ addr_val = 32767
    /\ ppu.scanline >= 240
    /\ ~contains(ppu.ctrl, 4)
    /\ ppu.vram_addr = 0

-----------------------------------------------------------------------------
(* The vertical increment as a function of v: the inputs are drawn from    *)
(* the fields of v, the action applies PPU::increment_scroll_y.            *)

IncYSteps == 2
IncYCoarseX == {0, 21, 31}

InitIncY ==
    /\ \E cx \in IncYCoarseX, cy \in 0..31, nt \in 0..3, fy \in 0..7 :
          ppu = [PPU_new EXCEPT !.vram_addr = Pack(cx, cy, nt, fy)]
    /\ InitGhost("new")

IncrementY ==
    /\ ops < IncYSteps
    /\ ppu' = increment_scroll_y(ppu)
    /\ hist' = Push(Entry("increment_scroll_y", ppu.vram_addr, FALSE), 2)
    /\ ops' = ops + 1
    /\ UNCHANGED <<dots, frame_dots, signals, frame_lens, toggles, sup_read,
                   addr_age, addr_val, banks, cpu, dma, nmi, copies>>

NextIncY == IncrementY

SpecIncY == InitIncY /\ [][NextIncY]_vars

\* C17: the vertical increment adds one to fine-Y when fine-Y is below 7; at
\* fine-Y 7 it clears fine-Y and adds one to coarse-Y, except that coarse-Y
\* 29 becomes 0 with bit 11 toggled and coarse-Y 31 becomes 0 with bit 11
\* kept; coarse-X, bit 10 and everything outside v are unchanged.
C17_VerticalIncrement ==
    [][ hist'[1].op = "increment_scroll_y"
        => ppu' = [ppu EXCEPT !.vram_addr = VerticalIncrement(ppu.vram_addr)] ]_vars

\* the increment was applied at fine-Y 7, coarse-Y 29: coarse-Y and fine-Y
\* are 0 and bit 11 is toggled
C17_Witness ==
    /\ hist[1].op = "increment_scroll_y"
    /\ FineY(hist[1].arg) = 7 /\ CoarseY(hist[1].arg) = 29
    /\ NametableSelect(hist[1].arg) = 1 /\ CoarseX(hist[1].arg) = 21
    /\ ppu.vram_addr = Pack(21, 0, 3, 0)

-----------------------------------------------------------------------------
(* Sprite 0 over the background.  At the end of VBlank the program places  *)
(* sprite 0 (OAM bytes 0 and 3), writes the first nametable entry, clears  *)
(* the address and enables rendering; the PPU then runs the pre-render     *)
(* line and the first visible lines.  All other OAM bytes are 0: sprites   *)
(* 1..63 are at (0, 0) with tile 0.                                        *)

\* the run ends when this scanline begins
HitLastLine == 2
HitStartDot == DotOf(0, 260, 300)
\* sprite 0 in range of lines 0..7, or off screen
HitSpriteY == {0, 240}
HitSpriteX == {0, 4, 255}
\* first tile of the background: tile 0 (opaque), tile 1 (transparent)
HitTiles == {0, 1}
\* background and sprites with and without the left column; sprites only;
\* background only; left column of the sprites hidden
HitMasks == {30, 24, 16, 8, 26}

\* OAMADDR 0, OAMDATA y, OAMADDR 3, OAMDATA x
place_sprite_0(p, y, x) ==
    execute_ppu_write(execute_ppu_write(execute_ppu_write(execute_ppu_write(
        p, PORT_OAMADDR, 0), PORT_OAMDATA, y), PORT_OAMADDR, 3), PORT_OAMDATA, x)

\* Address hi, Address lo, three dot steps
set_address(p, hi, lo) ==
    run_3(execute_ppu_write(execute_ppu_write(p, PORT_ADDR, hi), PORT_ADDR, lo))

\* nametable entry 0x2000 := tile, address back to 0, Mask := mask
hit_setup(p, y, x, tile, mask) ==
    execute_ppu_write(
        set_address(execute_ppu_write(set_address(place_sprite_0(p, y, x), 32, 0),
                                      PORT_DATA, tile), 0, 0),
        PORT_MASK, mask)

InitHit ==
    /\ \E y \in HitSpriteY, x \in HitSpriteX, tile \in HitTiles, mask \in HitMasks :
          /\ ppu = hit_setup(PowerOnAfter(HitStartDot), y, x, tile, mask)
          /\ banks = write_nametable(<<EmptyBank, EmptyBank, EmptyBank, EmptyBank>>,
                                     "Horizontal", 8192, tile)
    /\ hist = <<Entry("write_ppumask", ppu.mask, FALSE)>>
    /\ dots = 0
    /\ ops = 0
    /\ frame_dots = 0
    /\ signals = 0
    /\ frame_lens = <<0, 0>>
    /\ toggles = 4
    /\ sup_read = 0
    /\ addr_age = 3
    /\ addr_val = 0
    /\ cpu = CPU_new
    /\ dma = NoDma
    /\ nmi = NoNmi
    /\ copies = NoCopies

HitDot == (ppu.scanline >= 260 \/ ppu.scanline < HitLastLine) /\ DotStep(2)

NextHit == HitDot

SpecHit == InitHit /\ [][NextHit]_vars

\* the PPU as PPU::run hands it to draw_pixel in the dot step from p (cycle <= 255)
DrawState(p) == process_scanline_scroll(load_tile_info([p EXCEPT !.cycle = @ + 1]))

\* the pixel of the sprite in slot 0 at the dot of m is opaque
SlotZeroOpaque(m) ==
    /\ m.sprite_count > 0
    /\ m.cycle - m.sprite_tiles[1].sprite_x - 1 \in 0..7
    /\ sprite_color(m.sprite_tiles[1], m.cycle - m.sprite_tiles[1].sprite_x - 1) # 0

\* the background pixel at the dot of m (fine X applied) is opaque
BackgroundOpaque(m) ==
    \/ And(Shl16(m.low_bit_shift, m.x_scroll), 32768) # 0
    \/ And(Shl16(m.high_bit_shift, m.x_scroll), 32768) # 0

\* background and sprites are enabled and shown at the dot of m
BothShown(m) ==
    /\ contains(m.mask, Mask_SHOW_BACKGROUND) /\ contains(m.mask, Mask_SHOW_SPRITES)
    /\ m.cycle > 8 \/ contains(m.mask, Mask_SHOW_LEFT_BACKGROUND)
    /\ m.cycle > 8 \/ contains(m.mask, Mask_SHOW_LEFT_SPRITES)

HitCondition(m) ==
    /\ m.sprite_0_visible
    /\ SlotZeroOpaque(m)
    /\ BackgroundOpaque(m)
    /\ BothShown(m)
    /\ m.cycle # 256

\* C18: at a visible dot (scanline 0..239, cycle 1..256) with the flag clear,
\* the dot step sets the sprite-zero-hit flag exactly when slot 0 holds
\* sprite 0 of OAM, its pixel and the background pixel are opaque,
\* background and sprites are enabled and not hidden in the left column at
\* that dot, and the cycle is not 256.
C18_SpriteZeroHit ==
    [][ ( /\ hist'[1].op = "run" /\ dots' = dots + 1
          /\ ppu.scanline >= 0 /\ ppu.scanline < 240 /\ ppu.cycle < 256
          /\ ~contains(ppu.status_flags, Status_SPRITE_ZERO_HIT) )
        => ( contains(ppu'.status_flags, Status_SPRITE_ZERO_HIT)
             <=> HitCondition(DrawState(ppu)) ) ]_vars

\* left column hidden, sprite 0 at X = 4 over an opaque background: the
\* flag is set at cycle 9, the first dot that is shown
C18_Witness ==
    /\ hist[1].op = "run"
    /\ ppu.scanline = 1 /\ ppu.cycle = 9
    /\ ppu.mask = 24
    /\ ppu.sprite_0_visible /\ ppu.sprite_tiles[1].sprite_x = 4
    /\ contains(ppu.status_flags, Status_SPRITE_ZERO_HIT)

-----------------------------------------------------------------------------
(* Both sprite flags until the next pre-render line.  Late in a frame, with *)
(* rendering still off, the program moves sprites 0..8 to line 238 and      *)
(* enables rendering: line 238 sets the overflow flag, line 239 the         *)
(* sprite-zero hit.  The program then accesses the ports at two points;     *)
(* the PPU runs to the start of the pre-render line.                        *)

StickyOps == 1
\* the run ends at this cycle of the pre-render line
StickyLastCycle == 3
StickyStartDot == DotOf(0, 237, 300)
StickySprites == 9
\* (scanline, cycle) at which the program accesses a port
StickyPolls == { <<239, 300>>, <<250, 10>> }

RECURSIVE place_sprites(_, _, _)
\* OAMADDR 4 k, OAMDATA y for the sprites k = 0 .. n - 1
place_sprites(p, n, y) ==
    IF n = 0 THEN p
    ELSE execute_ppu_write(
             execute_ppu_write(place_sprites(p, n - 1, y), PORT_OAMADDR, 4 * (n - 1)),
             PORT_OAMDATA, y)

\* the sprites at Y = 238, OAMADDR 0, Mask 0x1E
sticky_setup(p) ==
    execute_ppu_write(
        execute_ppu_write(place_sprites(p, StickySprites, 238), PORT_OAMADDR, 0),
        PORT_MASK, 30)

InitSticky ==
    /\ ppu = sticky_setup(PowerOnAfter(StickyStartDot))
    /\ InitGhost("write_ppumask")

StickyDot == (ppu.scanline >= 0 \/ ppu.cycle < StickyLastCycle) /\ DotStep(2)

AtPoll == <<ppu.scanline, ppu.cycle>> \in StickyPolls /\ ops < StickyOps

StickyReadStatus == AtPoll /\ ReadStatus(2, StickyOps)

StickyWriteCtrl == AtPoll /\ WriteCtrl(128, 2, StickyOps)

StickyWriteMask == AtPoll /\ WriteMask(0, 2, StickyOps)

StickyWriteOamAddr == AtPoll /\ WriteOamAddr(0, 2, StickyOps)

StickyReadOamData == AtPoll /\ ReadOamData(2, StickyOps)

StickyWriteOamData == AtPoll /\ WriteOamData(255, 2, StickyOps)

StickyWriteScroll == AtPoll /\ WriteScroll(255, 2, StickyOps)

StickyWriteAddr == AtPoll /\ WriteAddr(63, 2, StickyOps)

StickyReadData == AtPoll /\ ReadData(2, StickyOps)

StickyWriteData == AtPoll /\ WriteData(255, 2, StickyOps)

NextSticky ==
    \/ StickyDot
    \/ StickyReadStatus \/ StickyWriteCtrl \/ StickyWriteMask
    \/ StickyWriteOamAddr \/ StickyReadOamData \/ StickyWriteOamData
    \/ StickyWriteScroll \/ StickyWriteAddr \/ StickyReadData \/ StickyWriteData

SpecSticky == InitSticky /\ [][NextSticky]_vars

\* the step takes the counter from scanline 260 to the pre-render line
ToPreRender == ppu.scanline = 260 /\ ppu'.scanline = -1

\* C19: a sprite-zero-hit or sprite-overflow flag that is set stays set over
\* every step (dot step, Status read, any other port access) except the dot
\* step that rolls the counter over to the pre-render line; after that step
\* both flags are clear.
C19_FlagsSticky ==
    [][ /\ \A f \in {Status_SPRITE_ZERO_HIT, Status_SPRITE_OVERFLOW} :
             (contains(ppu.status_flags, f) /\ ~ToPreRender)
                 => contains(ppu'.status_flags, f)
        /\ ToPreRender => /\ ~contains(ppu'.status_flags, Status_SPRITE_ZERO_HIT)
                          /\ ~contains(ppu'.status_flags, Status_SPRITE_OVERFLOW)
      ]_vars

\* a Status read during rendering returned both flags and left both set
C19_Witness ==
    /\ hist[1].op = "read_ppustatus"
    /\ ppu.scanline = 239
    /\ contains(hist[1].ret, Status_SPRITE_ZERO_HIT)
    /\ contains(hist[1].ret, Status_SPRITE_OVERFLOW)
    /\ contains(ppu.status_flags, Status_SPRITE_ZERO_HIT)
    /\ contains(ppu.status_flags, Status_SPRITE_OVERFLOW)

-----------------------------------------------------------------------------
(* The search for a ninth sprite.  Late in a frame, with rendering off,    *)
(* the program moves the first sprites to line 238, writes one more OAM    *)
(* byte and enables rendering; the PPU evaluates line 238.  All other OAM  *)
(* bytes are 0: the other sprites are at Y = 0, out of range of line 238.  *)

\* the run ends when this scanline begins
OverflowLastLine == 239
OverflowStartDot == DotOf(0, 237, 300)
\* number of sprites moved to line 238
OverflowSprites == {7, 8, 9}
\* the extra byte: tile of sprite 9, attributes of sprite 10, Y of sprite 12
OverflowAddrs == {37, 42, 48}
\* its value: in range of line 238 as a Y would be, or not
OverflowBytes == {238, 1}

\* the sprites at Y = 238, OAM[addr] := byte, OAMADDR 0, Mask 0x1E
overflow_setup(p, n, addr, byte) ==
    execute_ppu_write(execute_ppu_write(execute_ppu_write(execute_ppu_write(
        place_sprites(p, n, 238), PORT_OAMADDR, addr), PORT_OAMDATA, byte),
        PORT_OAMADDR, 0), PORT_MASK, 30)

InitOverflow ==
    /\ \E n \in OverflowSprites, addr \in OverflowAddrs, byte \in OverflowBytes :
          ppu = overflow_setup(PowerOnAfter(OverflowStartDot), n, addr, byte)
    /\ InitGhost("write_ppumask")

OverflowDot == ppu.scanline < OverflowLastLine /\ DotStep(2)

NextOverflow == OverflowDot

SpecOverflow == InitOverflow /\ [][NextOverflow]_vars

\* the byte y, taken as a sprite's Y, puts the sprite on the line
InRange(p, y, line) ==
    line >= y /\ line < y + (IF contains(p.ctrl, Control_SPRITE_SIZE) THEN 16 ELSE 8)

\* the sprites of OAM whose Y is in range of the line
SpritesInRange(p, line) == {k \in 0..63 : InRange(p, Load(p.sprite_ram, 4 * k), line)}

\* the dot step from p is an evaluation step (even cycle of 66..=256) that
\* runs with 8 sprites copied and rejects the byte it tests
RejectAfterEight(p) ==
    /\ p.scanline >= 0 /\ p.scanline < 240
    /\ p.cycle >= 65 /\ p.cycle < 256 /\ p.cycle % 2 = 1
    /\ is_rendering_enabled(p)
    /\ ~p.oam_copy_done
    /\ p.secondary_oam_addr >= 32
    /\ ~p.sprite_in_range
    /\ ~InRange(p, p.oam_copy_buffer, p.scanline)

\* C20: once 8 sprites are copied, an evaluation step that rejects the byte
\* it tests advances the sprite index and the byte offset together, so the
\* next byte tested is not a Y byte; and the overflow flag is set only by a
\* step that finds the byte it tests in range.
C20_OverflowMiscount ==
    [][ /\ (hist'[1].op = "run" /\ dots' = dots + 1 /\ RejectAfterEight(ppu))
             => /\ ppu'.sprite_addr_h = (ppu.sprite_addr_h + 1) % 64
                /\ ppu'.sprite_addr_l = (ppu.sprite_addr_l + 1) % 4
                /\ ppu'.sprite_ram_addr = 4 * ppu'.sprite_addr_h + ppu'.sprite_addr_l
                /\ ppu'.status_flags = ppu.status_flags
        /\ ( /\ ~contains(ppu.status_flags, Status_SPRITE_OVERFLOW)
             /\ contains(ppu'.status_flags, Status_SPRITE_OVERFLOW) )
             => /\ ppu.secondary_oam_addr >= 32
                /\ \/ ppu.sprite_in_range
                   \/ InRange(ppu, ppu.oam_copy_buffer, ppu.scanline)
      ]_vars

\* line 238 has been evaluated: exactly the sprites 0..7 have their Y in
\* range, the tile byte of sprite 9 is in range as a Y would be, and the
\* overflow flag is set
C20_Witness ==
    /\ ppu.scanline = 238 /\ ppu.cycle = 256
    /\ SpritesInRange(ppu, 238) = 0..7
    /\ Load(ppu.sprite_ram, 37) = 238
    /\ contains(ppu.status_flags, Status_SPRITE_OVERFLOW)

-----------------------------------------------------------------------------
(* The OAM ports: OAM-Address (0x2003) and OAM-Data (0x2004) accessed in   *)
(* VBlank, on a visible line and on the pre-render line, with rendering    *)
(* switched on or left off.                                                *)

OamOps == 5
OamDots == 2

\* VBlank, a visible line during sprite evaluation, the pre-render line
OamStartDots == { DotOf(0, 245, 10), DotOf(0, 100, 100), DotOf(0, -1, 100) }

\* rendering on
OamMaskVals == {24}

\* a Y byte, an attribute byte, and the last two bytes of OAM
OamAddrBytes == {0, 2, 254, 255}
OamDataBytes == {37, 255}

InitOam ==
    /\ \E n \in OamStartDots : ppu = PowerOnAfter(n)
    /\ InitGhost("run_to")

\* the dot step that moves a Mask write into the rendering latch
OamDot ==
    /\ dots < OamDots
    /\ ppu.need_state_update
    /\ DotStep(4)

OamSetMask ==
    /\ last_op = "run_to"
    /\ \E m \in OamMaskVals : WriteMask(m, 4, OamOps + 1)

OamWriteAddr ==
    /\ ops < OamOps
    /\ \E a \in OamAddrBytes : WriteOamAddr(a, 4, OamOps + 1)

OamWriteData ==
    /\ ops < OamOps
    /\ \E b \in OamDataBytes : WriteOamData(b, 4, OamOps + 1)

OamReadData == ops < OamOps /\ ReadOamData(4, OamOps + 1)

NextOam ==
    \/ OamDot
    \/ OamSetMask
    \/ OamWriteAddr
    \/ OamWriteData
    \/ OamReadData

SpecOam == InitOam /\ [][NextOam]_vars

\* the step is an OAM-Data write / read
OamDataWrite == hist'[1].op = "write_oamdata" /\ ops' = ops + 1

OamDataRead == hist'[1].op = "read_oamdata" /\ ops' = ops + 1

\* outside rendering: scanline 240 or later, or the rendering latch off
OutsideRendering(p) == p.scanline >= 240 \/ ~p.rendering_enabled

\* active rendering: a scanline below 240 with the rendering latch on
ActiveRendering(p) == p.scanline < 240 /\ p.rendering_enabled

\* C21: an OAM-Data write made during active rendering (scanline below 240
\* with rendering enabled) leaves all 256 bytes of primary OAM unchanged and
\* advances the OAM address by 4 modulo 256.
C21_OamWriteRendering ==
    [][ OamDataWrite /\ ActiveRendering(ppu) =>
          /\ ppu'.sprite_ram = ppu.sprite_ram
          /\ ppu'.sprite_ram_addr = (ppu.sprite_ram_addr + 4) % 256
      ]_vars

\* an OAM-Data write of 255 on visible line 100 with rendering on that moved
\* the OAM address from 254 to 2 and stored nothing
C21_Witness ==
    /\ Len(hist) >= 2
    /\ hist[1].op = "write_oamdata" /\ hist[1].arg = 255
    /\ hist[2].op = "write_oamaddr" /\ hist[2].arg = 254
    /\ ppu.scanline = 100
    /\ ppu.rendering_enabled
    /\ ppu.sprite_ram_addr = 2
    /\ Load(ppu.sprite_ram, 254) = 0

\* the byte OAM keeps of b at address a: attribute bytes lose bits 2..4
OamStored(a, b) == IF a % 4 = 2 THEN And(b, 227) ELSE b

\* the last two accesses were OAM-Address := a and OAM-Data := b
OamWritten ==
    /\ Len(hist) >= 2
    /\ hist[1].op = "write_oamdata"
    /\ hist[2].op = "write_oamaddr"

\* the last four accesses were OAM-Address := a, OAM-Data := b,
\* OAM-Address := a and a read of OAM-Data
OamRoundTrip ==
    /\ Len(hist) >= 4
    /\ hist[1].op = "read_oamdata"
    /\ hist[2].op = "write_oamaddr"
    /\ hist[3].op = "write_oamdata"
    /\ hist[4].op = "write_oamaddr"
    /\ hist[4].arg = hist[2].arg

\* C22: outside rendering, after OAM-Address := a and OAM-Data := b, OAM[a]
\* holds b (b & 0xE3 when a mod 4 = 2) and the OAM address is (a+1) mod 256;
\* after OAM-Address := a again a read of OAM-Data returns that stored byte,
\* and the read does not change the OAM address.
C22_OamRoundTrip ==
    /\ OamWritten /\ OutsideRendering(ppu) =>
          /\ Load(ppu.sprite_ram, hist[2].arg) = OamStored(hist[2].arg, hist[1].arg)
          /\ ppu.sprite_ram_addr = (hist[2].arg + 1) % 256
    /\ OamRoundTrip /\ OutsideRendering(ppu) =>
          /\ hist[1].ret = OamStored(hist[4].arg, hist[3].arg)
          /\ ppu.sprite_ram_addr = hist[2].arg

\* the attribute byte 255 written at address 2 in VBlank with rendering on
\* was read back as 0xE3, the OAM address still 2
C22_Witness ==
    /\ OamRoundTrip
    /\ ppu.scanline >= 240
    /\ ppu.rendering_enabled
    /\ hist[4].arg = 2
    /\ hist[3].arg = 255
    /\ hist[1].ret = 227
    /\ ppu.sprite_ram_addr = 2

-----------------------------------------------------------------------------
(* The sprite DMA: the CPU writes a page number to 0x4014; the memory_read *)
(* that follows halts the CPU and copies the page to OAM-Data, one read    *)
(* cycle and one write cycle per byte.  One step is one CPU cycle.         *)

\* CPU cycles at which the program starts: two in VBlank (line 245), of
\* either parity, one on visible line 100, one on line 259, from where the
\* transfer runs into the pre-render line
DmaStartCycles == {27850, 27851, 11399, 29438}

\* pages of RAM: 0x0200 and its mirror 0x0A00, and 0x0700
DmaPages == {2, 10, 7}
DmaOamAddrs == {2, 255}
DmaMaskVals == {24}

\* the address of the instruction fetch that takes up the DMA: in PRG ROM
DmaFetchAddrs == {32768}

\* RAM as the program filled it: byte (37 * a + 11) mod 256 at address a
DmaRamByte(a) == (37 * a + 11) % 256

DmaRam == [a \in {x \in 0..2047 : DmaRamByte(x) # 0} |-> DmaRamByte(a)]

InitDma ==
    /\ \E cc \in DmaStartCycles :
          /\ ppu = PowerOnAfter(CpuDots(cc))
          /\ cpu = [CpuAfter(cc) EXCEPT !.cpu_ram = DmaRam]
    /\ dma = NoDma
    /\ nmi = NoNmi
    /\ copies = NoCopies
    /\ InitTrace("run_to")

\* a CPU step from machine [cpu, ppu] to machine t, logged as entry e
DmaStepTo(t, e, d) ==
    /\ ~ppu.panicked
    /\ ppu' = t.ppu
    /\ cpu' = t.cpu
    /\ hist' = Push(e, 2)
    /\ dma' = d
    /\ UNCHANGED <<dots, ops, frame_dots, signals, frame_lens, toggles, sup_read,
                   addr_age, addr_val, banks, nmi, copies>>

Now == [cpu |-> cpu, ppu |-> ppu]

DmaSetMask ==
    /\ last_op = "run_to"
    /\ \E m \in DmaMaskVals :
          DmaStepTo(memory_write(Now, 8193, m), Entry("write_ppumask", m, FALSE), dma)

DmaSetOamAddr ==
    /\ last_op \in {"run_to", "write_ppumask"}
    /\ \E a \in DmaOamAddrs :
          DmaStepTo(memory_write(Now, 8195, a), Entry("write_oamaddr", a, FALSE), dma)

\* the write of the page number to 0x4014
DmaTrigger ==
    /\ last_op \in {"run_to", "write_ppumask", "write_oamaddr"}
    /\ \E page \in DmaPages :
          DmaStepTo(memory_write(Now, 16404, page), Entry("write_oamdma", page, FALSE), dma)

\* memory_read finds the DMA flag set: the halt cycle
DmaHalt ==
    /\ cpu.at = "idle"
    /\ ppu.sprite_dma_transfer.enabled
    /\ \E addr \in DmaFetchAddrs :
          DmaStepTo(process_pending_dma_halt(Now, addr),
                    Entry("dma_halt", ppu.sprite_dma_transfer.page, FALSE),
                    [start |-> ppu.sprite_ram_addr, cycles |-> 0, writes |-> 0,
                     outside |-> TRUE])

\* what the next cycle of the loop is
DmaCycleKind(c) ==
    IF c.cycle_count % 2 = 0 THEN "dma_read"
    ELSE IF c.sprite_dma_counter % 2 # 0 THEN "dma_write"
    ELSE "dma_dummy"

\* one cycle of the while loop
DmaCycle ==
    /\ cpu.at = "dma"
    /\ cpu.sprite_dma_transfer
    /\ \E addr \in DmaFetchAddrs :
       Let(process_pending_dma_cycle(Now, addr), LAMBDA t:
         Let(DmaCycleKind(cpu), LAMBDA kind:
           DmaStepTo(t,
                     IF kind = "dma_read"
                     THEN Entry(kind, dma_read_addr(cpu), t.cpu.read_val)
                     ELSE Entry(kind, cpu.read_val, FALSE),
                     [dma EXCEPT
                        !.cycles = @ + 1,
                        !.writes = IF kind = "dma_write" THEN @ + 1 ELSE @,
                        !.outside = IF kind = "dma_write"
                                    THEN @ /\ OutsideRendering(process_cycle(Now).ppu)
                                    ELSE @])))

\* the loop is over: memory_read does its own read
DmaExit ==
    /\ cpu.at = "dma"
    /\ ~cpu.sprite_dma_transfer
    /\ \E addr \in DmaFetchAddrs :
          DmaStepTo(process_pending_dma_exit(Now, addr),
                    Entry("memory_read", addr, FALSE), dma)

NextDma ==
    \/ DmaSetMask
    \/ DmaSetOamAddr
    \/ DmaTrigger
    \/ DmaHalt
    \/ DmaCycle
    \/ DmaExit

SpecDma == InitDma /\ [][NextDma]_vars

\* the while loop of the DMA has been left and memory_read not yet resumed
DmaFinished == cpu.at = "dma" /\ ~cpu.sprite_dma_transfer

\* byte k of the source page
DmaSource(k) == Load(cpu.cpu_ram, (cpu.sprite_dma_offset * 256 + k) % 2048)

\* C23: an OAM DMA triggered by writing page P to 0x4014 halts the CPU and
\* performs exactly 256 OAM-Data writes, the k-th carrying the byte read from
\* P*256 + k in the cycle before it, within 513 cycles after the halt cycle,
\* and ends with the DMA flag cleared; when every write was made outside
\* rendering, OAM[(a+k) mod 256] holds byte k of the page (attribute bytes
\* masked) and the OAM address is back at its starting value a.
C23_OamDma ==
    /\ hist[1].op = "dma_halt" =>
          /\ cpu.at = "dma"
          /\ cpu.sprite_dma_transfer
          /\ cpu.sprite_dma_offset = hist[1].arg
    /\ hist[1].op = "dma_write" =>
          /\ hist[2].op = "dma_read"
          /\ hist[2].arg = cpu.sprite_dma_offset * 256 + dma.writes - 1
          /\ hist[2].ret = DmaSource(dma.writes - 1)
          /\ hist[1].arg = hist[2].ret
    /\ dma.writes <= 256
    /\ dma.cycles <= 513
    /\ DmaFinished =>
          /\ dma.writes = 256
          /\ ~ppu.sprite_dma_transfer.enabled
    /\ DmaFinished /\ dma.outside =>
          /\ \A k \in 0..255 :
                Load(ppu.sprite_ram, (dma.start + k) % 256)
                    = OamStored((dma.start + k) % 256, DmaSource(k))
          /\ ppu.sprite_ram_addr = dma.start

\* a finished DMA of page 0x0A that started at OAM address 255 in VBlank
\* with rendering on, after an alignment cycle
C23_Witness ==
    /\ DmaFinished
    /\ dma.outside
    /\ dma.cycles = 513
    /\ dma.start = 255
    /\ cpu.sprite_dma_offset = 10
    /\ ppu.rendering_enabled
    /\ ppu.scanline >= 240
    /\ Load(ppu.sprite_ram, 2) = And(DmaSource(3), 227)
    /\ DmaSource(3) # And(DmaSource(3), 227)

-----------------------------------------------------------------------------
(* The eight ports as the bus dispatches them: any port may be read and    *)
(* any port may be written, the write-only ones and Status included.       *)

LatchOps == 3
LatchDots == 2

\* VBlank and a visible line
LatchStartDots == { DotOf(0, 245, 10), DotOf(0, 100, 100) }
LatchBytes == {131, 0}

ReadNames ==
    << "read_ppuctrl", "read_ppumask", "read_ppustatus", "read_oamaddr",
       "read_oamdata", "read_ppuscroll", "read_ppuaddr", "read_ppudata" >>

WriteNames ==
    << "write_ppuctrl", "write_ppumask", "write_ppustatus", "write_oamaddr",
       "write_oamdata", "write_ppuscroll", "write_ppuaddr", "write_ppudata" >>

\* the ports that have no read handler
WriteOnlyPorts == {PORT_CTRL, PORT_MASK, PORT_OAMADDR, PORT_SCROLL, PORT_ADDR}

InitLatch ==
    /\ \E n \in LatchStartDots : ppu = PowerOnAfter(n)
    /\ InitGhost("run_to")

LatchDot == dots < LatchDots /\ DotStep(2)

LatchRead ==
    /\ ops < LatchOps
    /\ \E port \in 0..7 : PortRead(port, ReadNames[port + 1], 2, LatchOps)

LatchWrite ==
    /\ ops < LatchOps
    /\ \E port \in 0..7 : \E b \in LatchBytes :
          PortWrite(port, b, WriteNames[port + 1], 2, LatchOps)

NextLatch == LatchDot \/ LatchRead \/ LatchWrite

SpecLatch == InitLatch /\ [][NextLatch]_vars

\* the step is a write to one of the eight ports
AnyPortWrite ==
    /\ ops' = ops + 1
    /\ \E port \in 0..7 : hist'[1].op = WriteNames[port + 1]

\* the step is a read of a write-only port
WriteOnlyRead ==
    /\ ops' = ops + 1
    /\ \E port \in WriteOnlyPorts : hist'[1].op = ReadNames[port + 1]

\* every write to a port latches the written byte into open_bus
LatchOnWrite == [][ AnyPortWrite => ppu'.open_bus = hist'[1].arg ]_vars

\* C24: every write to any of the eight PPU ports latches the written byte
\* into the open-bus value, and a read of a write-only port (Control, Mask,
\* OAM-Address, Scroll, Address) returns that last-written byte.
C24_OpenBus ==
    [][ /\ AnyPortWrite => ppu'.open_bus = hist'[1].arg
        /\ WriteOnlyRead => hist'[1].ret = ppu.open_bus
      ]_vars

-----------------------------------------------------------------------------
(* The advance operation as its callers see it: PPU::run_to called with    *)
(* targets that grow by a few ticks, stay, or fall back.                   *)

AdvCalls == 4

\* a visible line, the end of the last visible line, the end of VBlank
AdvStartDots == { DotOf(0, 100, 5), DotOf(0, 239, 338), DotOf(0, 260, 339) }

\* the target of a call, relative to the target of the call before
AdvDeltas == {-8, -1, 0, 1, 3, 4, 7, 12}

InitAdv ==
    /\ \E n \in AdvStartDots :
          /\ ppu = PowerOnAfter(n)
          /\ hist = <<Entry("run_to", 4 * n, FALSE)>>
          /\ dots = n
    /\ ops = 0
    /\ frame_dots = 0
    /\ signals = 0
    /\ frame_lens = <<0, 0>>
    /\ toggles = 0
    /\ sup_read = 0
    /\ addr_age = -1
    /\ addr_val = 0
    /\ banks = <<EmptyBank, EmptyBank, EmptyBank, EmptyBank>>
    /\ cpu = CPU_new
    /\ dma = NoDma
    /\ nmi = NoNmi
    /\ copies = NoCopies

\* one call of run_to; hist keeps its target and the flag it returned, dots
\* counts the iterations of its loop, ops the calls
AdvRunTo ==
    /\ ops < AdvCalls
    /\ ~ppu.panicked
    /\ \E d \in AdvDeltas :
          /\ hist[1].arg + d >= 0
          /\ Let(run_to(ppu, hist[1].arg + d), LAMBDA r:
                /\ ppu' = r.ppu
                /\ hist' = <<Entry("run_to", hist[1].arg + d, r.new_frame)>>
                /\ dots' = dots + r.steps
                /\ signals' = IF r.new_frame THEN signals + 1 ELSE signals)
    /\ ops' = ops + 1
    /\ UNCHANGED <<frame_dots, frame_lens, toggles, sup_read, addr_age, addr_val,
                   banks, cpu, dma, nmi, copies>>

NextAdv == AdvRunTo

SpecAdv == InitAdv /\ [][NextAdv]_vars

\* the target of the call made in this step
AdvTarget == hist'[1].arg

\* C25: calling run_to with a target tick lower than the tick already
\* processed is reported as a fatal error; it is never silently accepted or
\* turned into a no-op.
C25_BackwardsFatal ==
    [][ ops' = ops + 1 /\ AdvTarget < ppu.master_clock => ppu'.panicked ]_vars

\* the step is a call of run_to; the target of the call before it
AdvCall == ops' = ops + 1

AdvPrevTarget == hist[1].arg

\* the call made one iteration per 4 ticks and one dot per iteration: the
\* clock moved by 4 per iteration and the counters are where that many dot
\* steps from power-on lead
AdvOneDotPerStep ==
    /\ ppu'.master_clock = ppu.master_clock + 4 * (dots' - dots)
    /\ ppu'.scanline = PowerOnAfter(dots').scanline
    /\ ppu'.cycle = PowerOnAfter(dots').cycle

\* the call stopped when the target tick was reached
AdvStopsAtTarget ==
    IF AdvTarget >= ppu.master_clock
    THEN ppu'.master_clock <= AdvTarget /\ AdvTarget < ppu'.master_clock + 4
    ELSE dots' = dots

\* a frame completed during the call: the counter rolled to scanline 240
AdvFrameCompleted == ppu.scanline < 240 /\ ppu'.scanline >= 240

\* C26 as stated: run_to(N) advances one dot per step of 4 ticks and stops as
\* soon as the target is reached or a frame completes, so a call that
\* returns true ends on the roll to scanline 240; it returns true iff a frame
\* completed during the call; for non-decreasing targets the dot steps since
\* construction number floor(N / 4) whenever no frame completed in the call.
C26_StopsAtFrame ==
    [][ AdvCall =>
          /\ AdvOneDotPerStep
          /\ hist'[1].ret <=> AdvFrameCompleted
          /\ hist'[1].ret => ppu'.scanline = 240 /\ ppu'.cycle = 0
          /\ ~hist'[1].ret => AdvStopsAtTarget
          /\ AdvTarget >= AdvPrevTarget /\ dots = AdvPrevTarget \div 4 /\ ~hist'[1].ret
                => dots' = AdvTarget \div 4
      ]_vars

\* C26 amended: run_to(N) advances one dot per step of 4 ticks and stops only
\* when the target tick is reached, also when a frame completes on the way;
\* it returns true iff a frame completed during the call; for non-decreasing
\* targets the dot steps since construction number floor(N / 4), whether or
\* not a frame completed in the call.
C26_RunsToTarget ==
    [][ AdvCall =>
          /\ AdvOneDotPerStep
          /\ hist'[1].ret <=> AdvFrameCompleted
          /\ AdvStopsAtTarget
          /\ AdvTarget >= AdvPrevTarget /\ dots = AdvPrevTarget \div 4
                => dots' = AdvTarget \div 4
      ]_vars

\* a call that completed a frame and went on to cycle 2 of scanline 240,
\* the dot steps still floor(N / 4)
C26_Witness ==
    /\ ops > 0
    /\ hist[1].ret
    /\ ppu.scanline = 240
    /\ ppu.cycle = 2
    /\ dots = hist[1].arg \div 4
    /\ ppu.master_clock = 4 * dots

-----------------------------------------------------------------------------
(* The frame buffer.                                                       *)

\* the step allocates the next frame buffer: the roll to the pre-render line
FrameAllocated ==
    /\ hist'[1].op = "run"
    /\ ppu.scanline = 260 /\ ppu'.scanline = -1
    /\ ppu'.curr_frame = Frame_new

\* the step is a visible dot that wrote its own pixel
PixelWritten ==
    /\ hist'[1].op = "run"
    /\ ppu'.scanline >= 0 /\ ppu'.scanline <= 239
    /\ ppu'.cycle >= 1 /\ ppu'.cycle <= 256
    /\ ppu'.curr_frame.written
    /\ ppu'.curr_frame.x = ppu'.cycle - 1
    /\ ppu'.curr_frame.y = ppu'.scanline

\* C27: from the frame-completion signal (the roll to scanline 240) until the
\* next frame buffer is allocated at the start of the pre-render line no dot
\* step and no register access changes the frame buffer; pixels are written
\* only at visible dots (scanline 0..=239, cycle 1..=256), each dot writing
\* only pixel (cycle - 1, scanline).
C27_FrameStable ==
    [][ /\ ppu.scanline >= 240 /\ ppu'.scanline >= 240 =>
              ppu'.curr_frame = ppu.curr_frame
        /\ ppu'.curr_frame # ppu.curr_frame => FrameAllocated \/ PixelWritten
      ]_vars

\* a register access in VBlank after a completed frame whose last pixel,
\* (255, 239), is still in the frame buffer
C27_Witness ==
    /\ signals > 0
    /\ ppu.scanline = 240
    /\ hist[1].op # "run"
    /\ ops > 0
    /\ ppu.curr_frame.written
    /\ ppu.curr_frame.x = 255
    /\ ppu.curr_frame.y = 239

-----------------------------------------------------------------------------
(* The NMI: the PPU raises nmi_generated, the CPU samples it at the end of *)
(* every cycle and takes the NMI vector at the end of an instruction.  One *)
(* step is one CPU cycle of an instruction, or the end of the instruction  *)
(* with the interrupt sequence it starts.  An instruction is its opcode    *)
(* fetch, then reads of the program or of RAM, then, from its fourth cycle *)
(* on, one read of Status (a load) or writes of Control (one of a store,   *)
(* two of a read-modify-write instruction).                                *)

\* CPU cycles at which the program starts, shortly before the VBlank of the
\* first frame: the dot (241, 1) is run in cycle 27393
NmiStartCycles == {27384, 27385, 27386}

\* no instruction starts after this cycle
NmiLastCycle == 27399

\* cycles of the longest instruction
NmiMaxCycles == 6

\* the cycle of an instruction from which on it can access a PPU port
NmiPortCycle == 4

NmiPortOps == {"read_ppustatus", "write_ppuctrl"}

NmiCtrlVals == {0, 128}

InitNmi ==
    /\ \E cc \in NmiStartCycles :
          /\ ppu = PowerOnAfter(CpuDots(cc))
          /\ cpu = [CpuAfter(cc) EXCEPT !.pc = 32768]
    /\ dma = NoDma
    /\ nmi = NoNmi
    /\ copies = NoCopies
    /\ InitTrace("run_to")

\* 1 when nmi_generated, low in machine a, is high in machine b
Rises(a, b) == IF ~a.ppu.nmi_generated /\ b.ppu.nmi_generated THEN 1 ELSE 0

\* 1 when need_nmi, unset in machine a, is set in machine b
Sampled(a, b) == IF ~a.cpu.need_nmi /\ b.cpu.need_nmi THEN 1 ELSE 0

\* the times nmi_generated rises in the read cycle of addr: in the dot steps
\* before the access, in the access, in the dot steps after it
ReadRises(s, addr) ==
    Let(start_cpu_cycle(s, TRUE), LAMBDA s1:
        Let(Machine(Bus_read(s1, addr)), LAMBDA s2:
            Rises(s, s1) + Rises(s1, s2) + Rises(s2, end_cpu_cycle(s2, TRUE))))

WriteRises(s, addr, val) ==
    Let(start_cpu_cycle(s, FALSE), LAMBDA s1:
        Let(Bus_write(s1, addr, val), LAMBDA s2:
            Rises(s, s1) + Rises(s1, s2) + Rises(s2, end_cpu_cycle(s2, FALSE))))

\* a CPU step from machine [cpu, ppu] to machine t, logged as entry e
NmiStepTo(t, e, n) ==
    /\ ~ppu.panicked
    /\ ppu' = t.ppu
    /\ cpu' = t.cpu
    /\ hist' = Push(e, 1)
    /\ nmi' = n
    /\ UNCHANGED <<dots, ops, frame_dots, signals, frame_lens, toggles, sup_read,
                   addr_age, addr_val, banks, dma, copies>>

\* one cycle of an instruction, from machine [cpu, ppu] to machine t, in
\* which nmi_generated rose r times
NmiCycleTo(t, e, r) ==
    NmiStepTo(t, e, [nmi EXCEPT !.asserted = @ + r,
                                !.sampled = @ + Sampled(Now, t),
                                !.cycles = @ + 1])

\* the opcode fetch
NmiFetch ==
    /\ nmi.cycles = 0
    /\ cpu.cycle_count < NmiLastCycle
    /\ Let(get_op_code(Now), LAMBDA r:
           NmiCycleTo(Machine(r), Entry("get_op_code", cpu.pc, FALSE),
                      ReadRises(Now, cpu.pc)))

\* a cycle of the instruction that reads the program or RAM
NmiRead ==
    /\ nmi.cycles \in 1 .. NmiMaxCycles - 1
    /\ last_op \notin NmiPortOps
    /\ Let(dummy_read(Now), LAMBDA t:
           NmiCycleTo(t, Entry("dummy_read", cpu.pc, FALSE), ReadRises(Now, cpu.pc)))

\* a cycle of the instruction that reads Status
NmiStatus ==
    /\ nmi.cycles \in NmiPortCycle - 1 .. NmiMaxCycles - 1
    /\ last_op \notin NmiPortOps
    /\ Let(memory_read(Now, 8194), LAMBDA r:
           NmiCycleTo(Machine(r), Entry("read_ppustatus", 0, r.val),
                      ReadRises(Now, 8194)))

\* a cycle of the instruction that writes Control
NmiCtrl ==
    /\ nmi.cycles \in NmiPortCycle - 1 .. NmiMaxCycles - 1
    /\ last_op # "read_ppustatus"
    /\ \E val \in NmiCtrlVals :
          Let(memory_write(Now, 8192, val), LAMBDA t:
              NmiCycleTo(t, Entry("write_ppuctrl", val, FALSE),
                         WriteRises(Now, 8192, val)))

\* the end of CPU::run (the IRQ line is not modelled: prev_run_irq is false)
\* with prev_need_nmi unset: nothing is done, the next instruction follows
NmiEnd ==
    /\ nmi.cycles >= 2
    /\ ~cpu.prev_need_nmi
    /\ NmiStepTo(Now, Entry("run_poll", 0, FALSE), [nmi EXCEPT !.cycles = 0])

\* the end of CPU::run with prev_need_nmi set: SysFuncs::irq is run.  No
\* cycle of it reads Status or writes Control, so nmi_generated rises at most
\* once in it, and need_nmi is set at most once before and once after its test
NmiPoll ==
    /\ nmi.cycles >= 2
    /\ cpu.prev_need_nmi
    /\ Let(irq_head(Now), LAMBDA h:
         Let(irq_take(h), LAMBDA t:
           NmiStepTo(t, Entry("irq", t.cpu.pc, h.cpu.need_nmi),
                     [asserted  |-> nmi.asserted + Rises(Now, t),
                      sampled   |-> nmi.sampled + Sampled(Now, h)
                                    + (IF t.cpu.need_nmi THEN 1 ELSE 0),
                      delivered |-> nmi.delivered + (IF h.cpu.need_nmi THEN 1 ELSE 0),
                      cycles    |-> 0])))

\* the instruction is BRK: after its operand fetch SysFuncs::brk is run, and
\* the end of CPU::run finds prev_need_nmi unset
NmiBrk ==
    /\ nmi.cycles = 2
    /\ hist[1].op = "dummy_read"
    /\ Let(brk_head(Now), LAMBDA h:
         Let(brk_take(h), LAMBDA t:
           NmiStepTo(t, Entry("brk", t.cpu.pc, h.cpu.need_nmi),
                     [asserted  |-> nmi.asserted + Rises(Now, t),
                      sampled   |-> nmi.sampled + Sampled(Now, h)
                                    + (IF h.cpu.need_nmi
                                       THEN (IF t.cpu.need_nmi THEN 1 ELSE 0)
                                       ELSE Sampled(h, t)),
                      delivered |-> nmi.delivered + (IF h.cpu.need_nmi THEN 1 ELSE 0),
                      cycles    |-> 0])))

NextNmi ==
    \/ NmiFetch
    \/ NmiRead
    \/ NmiStatus
    \/ NmiCtrl
    \/ NmiEnd
    \/ NmiPoll
    \/ NmiBrk

SpecNmi == InitNmi /\ [][NextNmi]_vars

\* 1 when an NMI is pending in the CPU
NmiPending == IF cpu.need_nmi THEN 1 ELSE 0

\* 1 when the PPU raised the line and the CPU has not yet sampled it
NmiUnsampled == IF ppu.nmi_generated /\ ~cpu.prev_nmi_flag THEN 1 ELSE 0

\* C28 as stated: every time the PPU raised nmi_generated the CPU took the NMI
\* vector exactly once, or the NMI is still on its way to the CPU (raised and
\* not yet sampled, or pending)
C28_EachAssertionDelivered ==
    /\ nmi.delivered <= nmi.asserted
    /\ nmi.asserted <= nmi.delivered + NmiPending + NmiUnsampled

\* C28, amended: the pending NMI is consumed by the poll that observes it:
\* every rising edge of nmi_generated the CPU sampled with no NMI pending was
\* delivered exactly once or is the one pending, every delivery answers an
\* assertion of its own, and after a poll that took the NMI vector an NMI is
\* pending only if a rising edge was sampled since
C28_PollConsumes ==
    /\ nmi.sampled = nmi.delivered + NmiPending
    /\ nmi.sampled <= nmi.asserted
    /\ nmi.delivered <= nmi.asserted

\* an NMI was delivered, and a later instruction ended with no NMI observed
C28_Witness ==
    /\ nmi.delivered = 1
    /\ nmi.asserted = 1
    /\ hist[1].op = "run_poll"
    /\ ~cpu.need_nmi
    /\ cpu.status = Status_INTERRUPT_DISABLE
    /\ cpu.sp = 250

-----------------------------------------------------------------------------
(* The Mask write and the rendering latch.                                 *)

\* the step is a Mask write
MaskWrite == hist'[1].op = "write_ppumask" /\ ops' = ops + 1

\* the step is a dot step that follows a Mask write which left the Mask bits
\* and the rendering latch different
DotAfterMaskChange ==
    /\ dots' = dots + 1
    /\ hist[1].op = "write_ppumask"
    /\ ppu.rendering_enabled # mask_rendering(ppu)

\* C29: a Mask write leaves the rendering latch as it is, and the
\* dot step that follows a Mask write that changed whether rendering is enabled
\* ends with the latch at the new value, wherever the write is made
C29_MaskLatchNextDot ==
    [][ /\ MaskWrite => ppu'.rendering_enabled = ppu.rendering_enabled
        /\ DotAfterMaskChange =>
              /\ ppu.need_state_update
              /\ ppu'.rendering_enabled = mask_rendering(ppu)
      ]_vars

\* what the code does: a Mask write leaves the rendering latch (and the latch
\* of the dot before) as it is and marks the state for update when the Mask
\* bits now differ from the latch; a dot step that does not signal frame
\* completion ends with the latch at the value of the Mask bits; the dot step
\* that signals frame completion leaves the latch and the mark as they are
MaskLatchDelayed ==
    [][ /\ MaskWrite =>
              /\ ppu'.rendering_enabled = ppu.rendering_enabled
              /\ ppu'.prev_rendering_enabled = ppu.prev_rendering_enabled
              /\ ppu'.rendering_enabled # mask_rendering(ppu') => ppu'.need_state_update
        /\ (dots' = dots + 1 /\ ~hist'[1].ret) =>
              ppu'.rendering_enabled = mask_rendering(ppu)
        /\ (dots' = dots + 1 /\ hist'[1].ret) =>
              /\ ppu'.rendering_enabled = ppu.rendering_enabled
              /\ ppu'.need_state_update = ppu.need_state_update
      ]_vars

\* on visible line 100 a Mask write enabled rendering and one dot step was
\* made: the latch is on, the latch of the dot before is still off
MaskLatchWitness ==
    /\ Len(hist) >= 2
    /\ IsRun(hist) /\ ~hist[1].ret
    /\ hist[2].op = "write_ppumask" /\ hist[2].arg = 24
    /\ ppu.scanline = 100
    /\ ppu.rendering_enabled
    /\ ~ppu.prev_rendering_enabled

-----------------------------------------------------------------------------
(* The scroll address over a frame: in VBlank the program sets Control,    *)
(* Scroll (twice) and Mask; then the PPU runs, with no port access, from   *)
(* the end of VBlank over the pre-render line and the visible lines.       *)

ScanLastLine == 240
ScanStartDot == DotOf(0, 260, 300)

\* <<Control, Scroll X, Scroll Y>>: t = 0; coarse X 31, coarse Y 29 and fine Y
\* 7 in nametable 3; coarse Y 31 in nametable 2; a scroll in mid screen
ScanScrolls == {<<0, 0, 0>>, <<3, 255, 239>>, <<2, 248, 255>>, <<1, 13, 100>>}

\* Control c, Scroll x, Scroll y, Mask: background and sprites shown
scan_setup(p, c, x, y) ==
    execute_ppu_write(execute_ppu_write(execute_ppu_write(
        execute_ppu_write(p, PORT_CTRL, c), PORT_SCROLL, x), PORT_SCROLL, y),
        PORT_MASK, 24)

InitScan ==
    /\ \E sc \in ScanScrolls :
          ppu = scan_setup(PowerOnAfter(ScanStartDot), sc[1], sc[2], sc[3])
    /\ InitGhost("write_ppumask")

ScanDot == (ppu.scanline >= 260 \/ ppu.scanline < ScanLastLine) /\ DotStep(1)

NextScan == ScanDot

SpecScan == InitScan /\ [][NextScan]_vars

\* v with the horizontal bits (coarse X, bit 10) of t
HorizontalReload(v, t) ==
    Pack(CoarseX(t), CoarseY(v),
         2 * (NametableSelect(v) \div 2) + (NametableSelect(t) % 2), FineY(v))

\* v with the vertical bits (coarse Y, bit 11, fine Y) of t
VerticalReload(v, t) ==
    Pack(CoarseX(v), CoarseY(t),
         2 * (NametableSelect(t) \div 2) + (NametableSelect(v) % 2), FineY(t))

\* v after n vertical increments
RECURSIVE VerticalIncrements(_, _)
VerticalIncrements(v, n) ==
    IF n = 0 THEN v ELSE VerticalIncrements(VerticalIncrement(v), n - 1)

\* what the dot of (scanline, cycle) of a rendered line does to v
ScrollAt(scanline, cycle, v, t) ==
    IF cycle \in 1 .. 256 /\ cycle % 8 = 0
    THEN IF cycle = 256 THEN VerticalIncrement(CoarseXIncrement(v))
         ELSE CoarseXIncrement(v)
    ELSE IF cycle = 257 THEN HorizontalReload(v, t)
    ELSE IF cycle \in {328, 336} THEN CoarseXIncrement(v)
    ELSE IF scanline = -1 /\ cycle \in 280 .. 304 THEN VerticalReload(v, t)
    ELSE v

\* the step is a dot step of a line -1..239 made with rendering enabled (both
\* latches on) that processes a dot: the one of cycle ppu.cycle + 1
RenderedDot ==
    /\ dots' = dots + 1
    /\ ppu.prev_rendering_enabled /\ ppu.rendering_enabled
    /\ ppu.scanline < 240
    /\ ppu.cycle <= 339

\* C30: with rendering enabled and no port access, the dot of cycle c changes
\* v by the coarse-X increment when c is a multiple of 8 in 1..256 and when c
\* is 328 or 336, by the vertical increment too when c is 256, by the reload
\* of the horizontal bits from t when c is 257 (on the pre-render line also by
\* the reload of the vertical bits in 280..304), and no other dot changes v;
\* hence at cycle 0 of visible line n v is t after n vertical increments and
\* two coarse-X increments
C30_ScrollPerLine ==
    [][ /\ RenderedDot =>
              /\ ppu'.vram_addr = ScrollAt(ppu.scanline, ppu.cycle + 1,
                                           ppu.vram_addr, ppu.temp_vram_addr)
              /\ ppu'.temp_vram_addr = ppu.temp_vram_addr
        /\ (dots' = dots + 1 /\ ppu.cycle = 340) => ppu'.vram_addr = ppu.vram_addr
        /\ (dots' = dots + 1 /\ ppu'.cycle = 0 /\ ppu'.scanline \in 0 .. 239) =>
              ppu'.vram_addr =
                 CoarseXIncrement(CoarseXIncrement(
                     VerticalIncrements(ppu'.temp_vram_addr, ppu'.scanline)))
      ]_vars

\* cycle 0 of line 9 after the scroll <<3, 255, 239>>: coarse Y went from 29
\* to 0 and on to 1, coarse X from 31 to 1, and v is in nametable 0
C30_Witness ==
    /\ ppu.scanline = 9 /\ ppu.cycle = 0
    /\ ppu.temp_vram_addr = Pack(31, 29, 3, 7)
    /\ ppu.vram_addr = Pack(1, 1, 0, 0)
    /\ ppu.prev_rendering_enabled

-----------------------------------------------------------------------------
(* Rendering disabled: what a dot step leaves alone.                       *)

\* the rendering latch and its copy of the dot before are both false
RenderingOff(p) == ~p.rendering_enabled /\ ~p.prev_rendering_enabled

\* what the background and sprite fetches load
FetchState(p) ==
    <<p.previous_tile, p.current_tile, p.next_tile, p.sprite_tiles,
      p.memory_read_buffer>>

\* what sprite evaluation works on
EvalState(p) ==
    <<p.secondary_sprite_ram, p.oam_copy_buffer, p.secondary_oam_addr,
      p.sprite_0_added, p.sprite_in_range, p.overflow_bug_counter,
      p.oam_copy_done, p.sprite_addr_h, p.sprite_addr_l, p.sprite_ram_addr,
      p.sprite_ram, p.sprite_0_visible,
      contains(p.status_flags, Status_SPRITE_OVERFLOW)>>

\* the dot step applies the pending Address-port write
AppliesAddress ==
    /\ ppu.update_vram_addr_delay = 1
    /\ ppu'.update_vram_addr_delay = 0
    /\ ppu'.vram_addr = ppu.update_vram_addr

\* C31: with the rendering latch and its delayed copy both false a dot step
\* fetches nothing (the tile and sprite registers and the bus address stay,
\* the bus address moving only to v when a pending Address write is applied or
\* the frame completes), runs no sprite evaluation and leaves v as it is unless
\* it applies a pending Address write; any other step that changes v is a
\* Data-port access
C31_RenderingOffIdle ==
    [][ RenderingOff(ppu) =>
          /\ dots' = dots + 1 =>
                /\ FetchState(ppu') = FetchState(ppu)
                /\ EvalState(ppu') = EvalState(ppu)
                /\ ppu'.ppu_bus_address # ppu.ppu_bus_address =>
                      \/ AppliesAddress /\ ppu'.ppu_bus_address = And(ppu'.vram_addr, 16383)
                      \/ hist'[1].ret = TRUE /\ ppu'.ppu_bus_address = ppu.vram_addr
                /\ ppu'.vram_addr # ppu.vram_addr => AppliesAddress
          /\ ppu'.vram_addr # ppu.vram_addr => (dots' = dots + 1 \/ DataAccess)
      ]_vars

\* a dot step of a visible line has reached cycle 256, where v moves when
\* rendering is on, with rendering off
C31_Witness ==
    /\ IsRun(hist)
    /\ ppu.scanline = 100
    /\ ppu.cycle = 256
    /\ RenderingOff(ppu)
    /\ dots >= 2

-----------------------------------------------------------------------------
(* Sprite fetch of cycles 257..=320: the bus accesses of the 8 slots.      *)

\* the step is the dot step, with rendering enabled, in which the slot's
\* pattern bytes are due: cycle 261 + 8 * slot
SlotFetchDot(slot) ==
    /\ dots' = dots + 1
    /\ ppu.scanline \in -1 .. 239
    /\ ppu.cycle + 1 = 261 + 8 * slot
    /\ is_rendering_enabled(ppu)

\* the address of the slot's attribute fetch, two dots before
SlotAttributeDot(slot) == ppu.cycle = 259 + 8 * slot

\* C32: with rendering enabled each of the 8 slots of cycles 257..=320 reads
\* its two pattern-table bytes, which leaves the bus address in the pattern
\* tables (below 0x2000), whether the slot holds a selected sprite or is
\* unused
C32_SlotFetches ==
    [][ \A slot \in 0..7 : SlotFetchDot(slot) => ppu'.ppu_bus_address < 8192 ]_vars

\* what the code does: a slot below the sprite count whose Y is below 240
\* reads the two bytes (the bus address ends at the high plane, 8 above the
\* slot's tile address); any other slot reads nothing and leaves the bus
\* address and the slot's registers as they were
SlotFetchesSelected ==
    [][ \A slot \in 0..7 : SlotFetchDot(slot) =>
          IF slot < ppu.sprite_count /\ At(ppu.secondary_sprite_ram, 4 * slot) < 240
          THEN /\ ppu'.ppu_bus_address = ppu'.sprite_tiles[slot + 1].tile_addr + 8
               /\ ppu'.ppu_bus_address < 8192
          ELSE /\ ppu'.ppu_bus_address = ppu.ppu_bus_address
               /\ ppu'.sprite_tiles = ppu.sprite_tiles
      ]_vars

\* slot 1 of the pre-render line, for which no sprite is selected, has passed
\* without a read
SlotUnusedWitness ==
    /\ IsRun(hist)
    /\ ppu.scanline = -1
    /\ ppu.cycle = 269
    /\ ppu.sprite_count = 0
    /\ is_rendering_enabled(ppu)
    /\ ppu.ppu_bus_address >= 8192

-----------------------------------------------------------------------------
(* Two sprites over the background.  At the end of VBlank the program      *)
(* writes sprites 0 and 1 (they overlap on dots 21..24 of lines 1..8),     *)
(* the nametable entries under them, clears the address and enables        *)
(* rendering with the left column shown.  All other OAM bytes are 0:       *)
(* sprites 2..63 are at (0, 0) with tile 0.                                *)

\* the run ends at this cycle of scanline 1
PixLastCycle == 32
PixStartDot == DotOf(0, 260, 300)
\* sprite 0 at x = 16: tile 0 (solid), 1 (transparent), 2 (two colours), in
\* front of or behind the background, or mirrored
PixTiles0 == {0, 1, 2}
PixAttrs0 == {0, 32, 64}
\* sprite 1 at x = 20: tile 0 with palette 1, in front of or behind the background
PixAttrs1 == {1, 33}
\* the background under the sprites: tile 0 (opaque), tile 1 (transparent)
PixTiles == {0, 1}

RECURSIVE write_bytes(_, _, _)
\* the bytes of seq written to the port one after the other
write_bytes(p, port, seq) ==
    IF seq = <<>> THEN p
    ELSE write_bytes(execute_ppu_write(p, port, Head(seq)), port, Tail(seq))

\* OAMADDR 0, the 8 bytes of sprites 0 and 1, OAMADDR 0, nametable entries
\* 0x2002 and 0x2003 := tile, address back to 0, Mask := 0x1E
pix_setup(p, tile0, attr0, attr1, tile) ==
    execute_ppu_write(
        set_address(
            write_bytes(
                set_address(
                    execute_ppu_write(
                        write_bytes(execute_ppu_write(p, PORT_OAMADDR, 0), PORT_OAMDATA,
                                    <<0, tile0, attr0, 16, 0, 0, attr1, 20>>),
                        PORT_OAMADDR, 0),
                    32, 2),
                PORT_DATA, <<tile, tile>>),
            0, 0),
        PORT_MASK, 30)

InitPix ==
    /\ \E tile0 \in PixTiles0, attr0 \in PixAttrs0, attr1 \in PixAttrs1, tile \in PixTiles :
          ppu = pix_setup(PowerOnAfter(PixStartDot), tile0, attr0, attr1, tile)
    /\ InitGhost("write_ppumask")

PixDot ==
    /\ ppu.scanline >= 260 \/ ppu.scanline < 1 \/ (ppu.scanline = 1 /\ ppu.cycle < PixLastCycle)
    /\ DotStep(2)

NextPix == PixDot

SpecPix == InitPix /\ [][NextPix]_vars

\* bit n of the number b
Bit(b, n) == (b \div (2 ^ n)) % 2

\* the sprite slots that cover the dot of m
Covering(m) ==
    {i \in 0 .. m.sprite_count - 1 : m.cycle - 1 - m.sprite_tiles[i + 1].sprite_x \in 0..7}

\* the colour (0 is transparent) of slot i at the dot of m: the pattern bits
\* of the column, counted from the left, or from the right when mirrored
SlotColour(m, i) ==
    LET s   == m.sprite_tiles[i + 1]
        col == m.cycle - 1 - s.sprite_x
        n   == IF s.flip_horizontal THEN col ELSE 7 - col
    IN  Bit(s.low_byte, n) + 2 * Bit(s.high_byte, n)

\* the slots of the sprites with an opaque pixel at the dot of m
OpaqueAt(m) == {i \in Covering(m) : SlotColour(m, i) # 0}

\* the colour (0 is transparent) of the background at the dot of m
BackgroundColour(m) ==
    Bit(m.low_bit_shift, 15 - m.x_scroll) + 2 * Bit(m.high_bit_shift, 15 - m.x_scroll)

\* the palette index of the background pixel at the dot of m
BackgroundIndex(m) ==
    (IF m.x_scroll + ((m.cycle - 1) % 8) < 8 THEN m.previous_tile ELSE m.current_tile)
        .palette_offset + BackgroundColour(m)

\* the palette index of the composed pixel
ComposedIndex(m) ==
    IF OpaqueAt(m) = {} THEN BackgroundIndex(m)
    ELSE LET c == CHOOSE k \in OpaqueAt(m) : \A j \in OpaqueAt(m) : k <= j
         IN  IF BackgroundColour(m) = 0 \/ ~m.sprite_tiles[c + 1].priority
             THEN m.sprite_tiles[c + 1].palette_offset + SlotColour(m, c)
             ELSE BackgroundIndex(m)

\* the palette entry shown: entry 0 for a transparent pixel
ShownEntry(idx) == IF idx % 4 = 0 THEN 0 ELSE idx

\* the step is the dot step of a visible dot with background and sprites
\* shown over the whole line
VisibleDotStep ==
    /\ dots' = dots + 1
    /\ ppu.scanline \in 0 .. 239
    /\ ppu.cycle + 1 \in 1 .. 256
    /\ is_rendering_enabled(ppu)
    /\ ppu.mask = 30

\* C33: at a visible dot the first sprite in slot order with an opaque pixel
\* is the sprite candidate; the pixel shown is the candidate's when the
\* background pixel is transparent or the candidate is in front, and the
\* background's otherwise or when there is no candidate (no later sprite
\* shows through a candidate behind the background); a transparent pixel
\* shows palette entry 0
C33_Composition ==
    [][ VisibleDotStep =>
          ppu'.curr_frame =
              [written |-> TRUE, x |-> ppu.cycle, y |-> ppu.scanline,
               color |-> At(ppu.palette, ShownEntry(ComposedIndex(DrawState(ppu))))]
      ]_vars

\* at dot 21 of line 1 sprite 0 (behind the background, opaque) and sprite 1
\* (in front, opaque) both cover an opaque background pixel: the background
\* (palette entry 3) is shown
C33_Witness ==
    /\ IsRun(hist)
    /\ ppu.scanline = 1 /\ ppu.cycle = 22
    /\ ppu.sprite_count = 8
    /\ ppu.sprite_tiles[1].priority /\ ppu.sprite_tiles[1].low_byte = 255
    /\ ~ppu.sprite_tiles[2].priority /\ ppu.sprite_tiles[2].low_byte = 255
    /\ ppu.sprite_tiles[1].sprite_x = 16 /\ ppu.sprite_tiles[2].sprite_x = 20
    /\ ppu.curr_frame = [written |-> TRUE, x |-> 21, y |-> 1, color |-> At(ppu.palette, 3)]
    /\ At(ppu.palette, 3) # At(ppu.palette, 23)

-----------------------------------------------------------------------------
(* Rendering disabled: the pixel of a visible dot.                         *)

\* v points into palette space
PaletteView(p) == And(p.vram_addr, 16128) = 16128

\* the step is the dot step of a visible dot with both show bits of Mask
\* clear and the rendering latch false
BackdropDotStep ==
    /\ dots' = dots + 1
    /\ ppu.scanline \in 0 .. 239
    /\ ppu.cycle + 1 \in 1 .. 256
    /\ ~mask_rendering(ppu)
    /\ ~is_rendering_enabled(ppu)

\* C34: with both show bits of Mask clear and the rendering latch false a
\* visible dot shows palette entry 0, or palette entry v & 0x1F while v
\* points into palette space (v & 0x3F00 = 0x3F00), and the dot step sets no
\* sprite-zero hit
C34_Backdrop ==
    [][ BackdropDotStep =>
          /\ ppu'.curr_frame =
                [written |-> TRUE, x |-> ppu.cycle, y |-> ppu.scanline,
                 color |-> At(ppu.palette,
                              IF PaletteView(ppu) THEN ppu.vram_addr % 32 ELSE 0)]
          /\ contains(ppu'.status_flags, Status_SPRITE_ZERO_HIT)
                = contains(ppu.status_flags, Status_SPRITE_ZERO_HIT)
      ]_vars

\* a visible dot was drawn with rendering disabled while v pointed at a
\* palette entry whose colour is not the backdrop's
C34_Witness ==
    /\ IsRun(hist)
    /\ ppu.scanline = 100
    /\ ~mask_rendering(ppu) /\ ~is_rendering_enabled(ppu)
    /\ PaletteView(ppu)
    /\ ppu.update_vram_addr_delay = 0
    /\ Len(hist) >= 2 /\ hist[2].op = "write_ppudata"
    /\ ppu.curr_frame = [written |-> TRUE, x |-> ppu.cycle - 1, y |-> 100,
                         color |-> At(ppu.palette, ppu.vram_addr % 32)]
    /\ ppu.curr_frame.color # At(ppu.palette, 0)

-----------------------------------------------------------------------------
(* Sprite evaluation over the first lines.  At the end of VBlank the       *)
(* program sets the sprite height, fills OAM (sprite i at Y = stride * i   *)
(* for the first EvalSprites sprites, the others off screen at Y = 255),   *)
(* sets the OAM address to 0 and enables rendering.                        *)

\* the run ends when this scanline begins
EvalLastLine == 18
\* number of sprites on screen
EvalSprites == 20
EvalStartDot == DotOf(0, 260, 300)
\* Control: sprites of 8 rows, of 16 rows
EvalCtrlVals == {0, 32}
\* rows between one sprite and the next: up to 8 (16) sprites in range of a
\* line, or up to 2 (4)
EvalStrides == {1, 4}

\* the 256 bytes of OAM: Y, tile, attributes, X of sprites 0..63
OamImage(stride) ==
    [n \in 1 .. 256 |->
        LET i == (n - 1) \div 4
            b == (n - 1) % 4
        IN  CASE b = 0 -> IF i < EvalSprites THEN stride * i ELSE 255
              [] b = 1 -> i
              [] b = 2 -> 0
              [] OTHER -> (8 * i) % 256]

\* Control := c, OAMADDR 4, OAMDATA stride (the Y of sprite 1), OAMADDR 0
eval_setup(p, c, stride) ==
    execute_ppu_write(
        execute_ppu_write(
            execute_ppu_write(execute_ppu_write(p, PORT_CTRL, c), PORT_OAMADDR, 4),
            PORT_OAMDATA, stride),
        PORT_OAMADDR, 0)

InitEval ==
    /\ \E c \in EvalCtrlVals, stride \in EvalStrides :
          ppu = eval_setup(PowerOnAfter(EvalStartDot), c, stride)
    /\ InitGhost("write_oamaddr")

\* the program fills OAM, one byte a write, from address 0 to address 255
EvalWriteOam ==
    /\ ops < 256
    /\ WriteOamData(OamImage(Load(ppu.sprite_ram, 4))[ppu.sprite_ram_addr + 1], 2, 257)

\* OAM is full and its address is back at 0: Mask := 0x1E
EvalSetMask == ops = 256 /\ WriteMask(30, 2, 257)

EvalDot ==
    /\ ops = 257
    /\ ppu.scanline >= 260 \/ ppu.scanline < EvalLastLine
    /\ DotStep(2)

NextEval == EvalWriteOam \/ EvalSetMask \/ EvalDot

SpecEval == InitEval /\ [][NextEval]_vars

-----------------------------------------------------------------------------
(* Sprite evaluation: what secondary OAM holds at cycle 256.               *)

\* the sprite of the set S with j sprites of S before it in OAM
NthOf(S, j) == CHOOSE i \in S : Cardinality({x \in S : x < i}) = j

\* the dot step of cycle 256 of a visible line has run with rendering on, the
\* evaluation having started at sprite 0
EvalDone ==
    /\ IsRun(hist)
    /\ ppu.scanline \in 0 .. 239
    /\ ppu.cycle = 256
    /\ is_rendering_enabled(ppu)
    /\ ppu.first_visible_sprite_addr = 0

\* the sprite count and the slots of secondary OAM agree with the set S of the
\* sprites in range
SelectionOf(S, n) ==
    /\ ppu.sprite_count = n
    /\ \A j \in 0 .. n - 1 : \A b \in 0..3 :
          At(ppu.secondary_sprite_ram, 4 * j + b) = Load(ppu.sprite_ram, 4 * NthOf(S, j) + b)
    /\ ppu.sprite_0_visible = (0 \in {NthOf(S, j) : j \in 0 .. n - 1})

\* C35: at cycle 256 of a visible line s evaluated with rendering on from OAM
\* address 0 and with no port access, the sprite count is min(8, k) for the k
\* sprites of OAM with Y <= s < Y + height, the slots 0..count-1 of secondary
\* OAM hold the bytes of the first of them in OAM order, no more than 8
\* sprites are held, and the sprite-zero latch is true exactly when sprite 0
\* is among them
C35_SpriteSelection ==
    EvalDone =>
        /\ SelectionOf(SpritesInRange(ppu, ppu.scanline),
                       Min(8, Cardinality(SpritesInRange(ppu, ppu.scanline))))
        /\ ppu.sprite_count <= 8
        /\ ppu.secondary_oam_addr <= 32

\* line 12 with sprites of 16 rows at Y = 0, 1, 2, ..: sprites 0..12 are in
\* range, sprites 0..7 are selected
C35_Witness ==
    /\ EvalDone
    /\ ppu.scanline = 12
    /\ contains(ppu.ctrl, Control_SPRITE_SIZE)
    /\ SpritesInRange(ppu, 12) = 0..12
    /\ ppu.sprite_count = 8
    /\ At(ppu.secondary_sprite_ram, 28) = 7
    /\ ppu.sprite_0_visible

\* line 9 with sprites of 8 rows at Y = 0, 4, 8, ..: sprites 1 and 2 are
\* selected and the sprite-zero latch is false
SelectionOfTwo ==
    /\ EvalDone
    /\ ppu.scanline = 9
    /\ SpritesInRange(ppu, 9) = {1, 2}
    /\ ppu.sprite_count = 2
    /\ At(ppu.secondary_sprite_ram, 0) = 4 /\ At(ppu.secondary_sprite_ram, 4) = 8
    /\ ~ppu.sprite_0_visible

\* line 0 with sprite 0 off screen and 63 sprites in range: sprites 1..8 are
\* selected and the sprite-zero latch is false
SelectionWithoutZero ==
    /\ EvalDone
    /\ ppu.scanline = 0
    /\ 0 \notin SpritesInRange(ppu, 0)
    /\ ppu.sprite_count = 8
    /\ ~ppu.sprite_0_visible

-----------------------------------------------------------------------------
(* Rendering switched off and on by the program while the PPU runs: Mask   *)
(* and OAM port accesses between the dot steps of a visible line (inside   *)
(* and after sprite evaluation) and of VBlank, starting with rendering on. *)

OffOps == 4
OffDots == 3

\* a visible line during sprite evaluation and after it, VBlank
OffStartDots == { DotOf(0, 100, 100), DotOf(0, 100, 300), DotOf(0, 245, 10) }
OffMaskVals == {0, 24}
OffAddrBytes == {0, 255}
OffDataBytes == {37}

\* Mask := 0x18 and the two dot steps that bring it into both latches
off_setup(p) == run_to_step(run_to_step(execute_ppu_write(p, PORT_MASK, 24)).ppu).ppu

InitOff ==
    /\ \E n \in OffStartDots : ppu = off_setup(PowerOnAfter(n))
    /\ InitGhost("run")

OffDot == dots < OffDots /\ DotStep(2)

OffWriteMask == ops < OffOps /\ \E m \in OffMaskVals : WriteMask(m, 2, OffOps)

OffWriteOamAddr == ops < OffOps /\ \E a \in OffAddrBytes : WriteOamAddr(a, 2, OffOps)

OffWriteOamData == ops < OffOps /\ \E b \in OffDataBytes : WriteOamData(b, 2, OffOps)

OffReadOamData == ops < OffOps /\ ReadOamData(2, OffOps)

NextOff ==
    \/ OffDot
    \/ OffWriteMask
    \/ OffWriteOamAddr
    \/ OffWriteOamData
    \/ OffReadOamData

SpecOff == InitOff /\ [][NextOff]_vars

\* C36: under every interleaving of dot steps, Mask, OAM-Address and OAM-Data
\* writes and OAM-Data reads the OAM address stays within 0..=255 and no
\* access to OAM fails
C36_OamAddressInRange ==
    /\ ppu.sprite_ram_addr \in 0 .. 255
    /\ ~ppu.panicked

\* what the code does: the OAM address stays within 0..=256, and it is 256
\* only after the dot step that brings a switch to rendering off into the
\* second latch during cycles 65..=256 of a line below 240
OamAddressAtMost256 ==
    /\ ppu.sprite_ram_addr \in 0 .. 256
    /\ ppu.sprite_ram_addr = 256 =>
          /\ ~ppu.prev_rendering_enabled
          /\ ppu.scanline < 240

\* the OAM address is 256 and an OAM-Data access has failed
OamAccessFailed ==
    /\ ppu.sprite_ram_addr = 256
    /\ ppu.panicked
    /\ hist[1].op \in {"read_oamdata", "write_oamdata"}

-----------------------------------------------------------------------------
(* Sprite evaluation cut short and taken up again.  Rendering is on from   *)
(* line 237 with 7 or 9 sprites at Y = 238; the program may switch it off  *)
(* on line 238, while the search for a ninth sprite is under way or after  *)
(* the evaluation, and on again on the pre-render line or after cycle 65   *)
(* of line 0 of the next frame.                                            *)

StaleOps == 2
\* the run ends at this cycle of scanline 0 of the next frame
StaleLastCycle == 80
StaleSprites == {7, 9}
\* (scanline, cycle) at which the program switches rendering off / on
StaleOffAt == { <<238, 130>>, <<238, 200>> }
StaleOnAt == { <<-1, 100>>, <<0, 70>> }

InitStale ==
    /\ \E n \in StaleSprites :
          ppu = overflow_setup(PowerOnAfter(OverflowStartDot), n, 37, 1)
    /\ InitGhost("write_ppumask")

StaleDot ==
    /\ ppu.scanline >= 237 \/ ppu.scanline < 0 \/ (ppu.scanline = 0 /\ ppu.cycle < StaleLastCycle)
    /\ DotStep(2)

StaleMaskOff ==
    /\ ops < StaleOps
    /\ ppu.mask # 0
    /\ <<ppu.scanline, ppu.cycle>> \in StaleOffAt
    /\ WriteMask(0, 2, StaleOps)

StaleMaskOn ==
    /\ ops < StaleOps
    /\ ppu.mask = 0
    /\ <<ppu.scanline, ppu.cycle>> \in StaleOnAt
    /\ WriteMask(30, 2, StaleOps)

NextStale == StaleDot \/ StaleMaskOff \/ StaleMaskOn

SpecStale == InitStale /\ [][NextStale]_vars

Overflow(p) == contains(p.status_flags, Status_SPRITE_OVERFLOW)

\* the step sets the overflow flag
OverflowRises == ~Overflow(ppu) /\ Overflow(ppu')

\* C37 as stated: the overflow flag is set only by an evaluation step taken
\* when 8 sprites were copied on the current scanline, and while no scanline
\* since the pre-render line began got 8 sprites copied the flag is clear
C37_OverflowOnlyWhenFull ==
    [][ /\ OverflowRises =>
              /\ dots' = dots + 1
              /\ EvaluationStep(ppu, ppu')
              /\ copies.line = 8
        /\ Overflow(ppu') => copies'.frame = 8
      ]_vars

\* C37, amended: the overflow flag is set only by an evaluation step taken
\* when the secondary-OAM address is at 32, which on a scanline whose
\* evaluation started at cycle 65 means that 8 sprites were copied on that
\* scanline; while no scanline since the pre-render line began got 8 sprites
\* copied and no evaluation went on without having started on its scanline,
\* the flag is clear
C37_OverflowAtAddress32 ==
    [][ /\ OverflowRises =>
              /\ dots' = dots + 1
              /\ EvaluationStep(ppu, ppu')
              /\ ppu.secondary_oam_addr = 32
              /\ copies.started => copies.line = 8
        /\ Overflow(ppu') => (copies'.frame = 8 \/ copies'.resumed)
      ]_vars

\* the flag was set on line 238 by the step that tests the ninth sprite
C37_Witness ==
    /\ IsRun(hist)
    /\ ppu.scanline = 238 /\ ppu.cycle = 130
    /\ Overflow(ppu)
    /\ copies = [line |-> 8, frame |-> 8, started |-> TRUE, resumed |-> FALSE]
    /\ ppu.secondary_oam_addr = 32

\* the flag is set on line 0 of the next frame, on which no sprite was copied
OverflowResumed ==
    /\ IsRun(hist)
    /\ ppu.scanline = 0
    /\ Overflow(ppu)
    /\ copies.frame = 0 /\ copies.resumed /\ ~copies.started

-----------------------------------------------------------------------------
(* The NMI output and the two conditions it stands for.                    *)

\* C38: in every state reached by dot steps and port accesses, NMI asserted
\* (nmi_generated) implies that VBlank is set and that NMI-enable of Control
\* is set: what clears VBlank (a Status read, cycle 1 of the pre-render
\* line) or NMI-enable (a Control write) deasserts NMI in the same operation.
C38_NmiImpliesVBlankAndEnable ==
    ppu.nmi_generated => (VBlank(ppu) /\ NmiEnabled(ppu))

\* NMI asserted by a Control write on the last line of VBlank and still
\* asserted at (-1, 0), one dot before VBlank ends
C38_Witness ==
    /\ IsRun(hist)
    /\ ops >= 1
    /\ ppu.scanline = -1 /\ ppu.cycle = 0
    /\ ppu.nmi_generated
    /\ VBlank(ppu)

\* NMI deasserted together with VBlank at (-1, 1) while NMI-enable stays set
NmiEndsWithVBlank ==
    /\ IsRun(hist)
    /\ ppu.scanline = -1 /\ ppu.cycle = 1
    /\ NmiEnabled(ppu)
    /\ ~VBlank(ppu)
    /\ ~ppu.nmi_generated

-----------------------------------------------------------------------------
(* The dots at which the VBlank flag can be set.                           *)

\* from (241, 1) through scanline 260, and (-1, 0)
VBlankWindow(p) ==
    \/ p.scanline = 241 /\ p.cycle >= 1
    \/ p.scanline \in 242..260
    \/ p.scanline = -1 /\ p.cycle = 0

\* C39: whenever the VBlank flag is set the counter is in the vertical-blank
\* window, from (241, 1) through scanline 260 or at (-1, 0); the flag is set
\* on no dot of scanlines 0..=240 and on no dot of the pre-render line from
\* cycle 1 on.
C39_VBlankWindow == VBlank(ppu) => VBlankWindow(ppu)

\* VBlank still set at (-1, 0), the last dot of the window, with no port
\* access since power-on
C39_Witness ==
    /\ IsRun(hist)
    /\ ops = 0
    /\ dots >= 1
    /\ ppu.scanline = -1 /\ ppu.cycle = 0
    /\ VBlank(ppu)

\* VBlank clear inside the window, after a Status read
VBlankClearInWindow ==
    /\ ppu.scanline = 250
    /\ hist[1].op = "read_ppustatus"
    /\ hist[1].ret >= 128
    /\ ~VBlank(ppu)

-----------------------------------------------------------------------------
(* The operations that change the latch t.                                 *)

\* the step is a Control, Scroll or Address write
LatchPortWrite ==
    /\ ops' = ops + 1
    /\ hist'[1].op \in {"write_ppuctrl", "write_ppuscroll", "write_ppuaddr"}

\* the step is the dot step that ends the delay of a second Address write:
\* v and t take the address that write left in t
DelayedCopy ==
    /\ dots' = dots + 1
    /\ ppu.update_vram_addr_delay = 1
    /\ ppu'.update_vram_addr_delay = 0
    /\ ppu'.vram_addr = ppu.update_vram_addr
    /\ ppu'.temp_vram_addr = ppu.update_vram_addr

\* C40 as stated: t is changed only by Control, Scroll and Address writes; no
\* dot step, Status read, Mask write, OAM access or Data access changes t,
\* also when a Control or Scroll write comes within the dots that follow a
\* second Address write.
C40_LatchOnlyByWrites ==
    [][ ppu'.temp_vram_addr # ppu.temp_vram_addr => LatchPortWrite ]_vars

\* what the code does: t is changed by Control, Scroll and Address writes
\* and by the dot step that ends the delay of a second Address write, which
\* sets t (with v) to the address that write left in t
LatchByWritesAndDelayedCopy ==
    [][ ppu'.temp_vram_addr # ppu.temp_vram_addr =>
            (LatchPortWrite \/ DelayedCopy) ]_vars

\* three Scroll/Address writes, the second one a second Address write and
\* the third one (a first Scroll or Address write, which changes t) within
\* the 3 dots after it: the third dot step has put t back to the address of
\* the second write
LatchPutBack ==
    /\ IsRun(hist) /\ ~hist[1].ret
    /\ ops = 3 /\ toggles = 3
    /\ addr_age = 3
    /\ ppu.w
    /\ ppu.x_scroll = 5
    /\ ppu.temp_vram_addr = addr_val
    /\ ppu.vram_addr = addr_val

\* t keeps the nametable bits of a Control write that comes after the delay
LatchKeepsLateWrite ==
    /\ IsRun(hist)
    /\ addr_age = 4
    /\ ppu.update_vram_addr_delay = 0
    /\ ppu.temp_vram_addr # addr_val
    /\ ppu.vram_addr = addr_val

====
